---- MODULE Spec2Model ----
(***************************************************************************)
(* Reference-counted ownership kernel of rust_tutor_ptr:                   *)
(*   Rc<T> / Weak<T>   (examples/example_02_rc.rs, example_05_weak.rs)     *)
(*   RefCell<T> guards (examples/example_04_refcell.rs)                    *)
(*                                                                         *)
(* An allocation (RcBox) carries the two raw counters the handles keep:    *)
(* `strong` is the number of Rc handles, `weak` is the number of Weak      *)
(* handles plus one implicit weak reference that the Rc handles hold       *)
(* together and give back when the last of them goes.  Rc::weak_count      *)
(* reports the raw counter without the implicit reference.                 *)
(***************************************************************************)
EXTENDS Integers, FiniteSets, Sequences, TLC

\* ------------------------------------------------------------------ bounds
MaxAllocs == 1
MaxRc == 3
MaxWeak == 2
MaxCells == 2
MaxGuards == 3
MaxNodes == 2
MaxStrong == 2
MaxRegs == 2
MaxObservers == 2
MaxInserts == 3
NumThreads == 3
MaxSecure == 3
MaxClones == 3
MaxDerefs == 3
NumWorkers == 2
NumTasks == 5

AllocIds == 1..MaxAllocs
RcIds == 1..MaxRc
WeakIds == 1..MaxWeak
CellIds == 1..MaxCells
NodeIds == 1..MaxNodes
ThreadIds == 1..NumThreads

\* payloads of the tests: Rc::new(42), Rc::new(100)
Values == {42, 100}

VARIABLES
    box,        \* AllocIds -> RcBox record (block, strong, weak, slot, data, drops)
    rc,         \* live Rc handles: handle id -> allocation
    wk,         \* live Weak handles that point at an allocation: id -> allocation
    emptyWk,    \* live Weak handles made by Weak::new() (no allocation)
    last,       \* the operation just performed and what it returned
    borrowFlag, \* per RefCell, its borrow flag: 0 unused, n > 0 readers, -1 writing
    cellValue,  \* per RefCell, the value inside
    guards,     \* live guards in acquisition order: [cell, kind: "ref" | "mut"]
    cellPc,     \* "run" | "unwinding" (a panic is propagating)
    cellLast,   \* the RefCell operation just performed and its outcome
    heap,       \* NodeIds -> RcBox of a struct that holds handles in its fields
    ext,        \* NodeIds -> number of Rc handles to it held in local variables
    gLast,      \* the operation on the object graph just performed
    arc,        \* test_arc_thread_safety: the Arc<Mutex<i32>>, main and threads
    lazy,       \* a LazyPtr: its two RefCells and the call just made
    sec,        \* SecurePtr handles on one Rc<RefCell<T>> and the call just made
    cnt,        \* CountedPtr handles, their access counters and the call just made
    wq          \* the shared work queue, its lock and the workers that drain it

rcVars == <<box, rc, wk, emptyWk, last>>
cellVars == <<borrowFlag, cellValue, guards, cellPc, cellLast>>
graphVars == <<heap, ext, gLast>>
vars == <<box, rc, wk, emptyWk, last,
          borrowFlag, cellValue, guards, cellPc, cellLast,
          heap, ext, gLast, arc, lazy, sec, cnt, wq>>

\* what the operations of one part leave alone
outsideRc == <<cellVars, graphVars, arc, lazy, sec, cnt, wq>>
outsideCell == <<rcVars, graphVars, arc, lazy, sec, cnt, wq>>
outsideGraph == <<rcVars, cellVars, arc, lazy, sec, cnt, wq>>
outsideArc == <<rcVars, cellVars, graphVars, lazy, sec, cnt, wq>>
outsideLazy == <<rcVars, cellVars, graphVars, arc, sec, cnt, wq>>
outsideSecure == <<rcVars, cellVars, graphVars, arc, lazy, cnt, wq>>
outsideCounted == <<rcVars, cellVars, graphVars, arc, lazy, sec, wq>>
outsideQueue == <<rcVars, cellVars, graphVars, arc, lazy, sec, cnt>>

\* ------------------------------------------------------------ RcBox record
\* block : "unalloc" | "live" | "freed"     the heap block
\* slot  : "none" | "valid" | "dropped" | "moved"   the value slot
\* drops : how many times the payload's destructor has run
NoBox == [block |-> "unalloc", strong |-> 0, weak |-> 0,
          slot |-> "none", data |-> 0, drops |-> 0]

\* mutant: the implicit weak reference is forgotten at construction
M_BoxNew_NoImplicitWeak(v) ==
    [block |-> "live", strong |-> 1, weak |-> 0,
     slot |-> "valid", data |-> v, drops |-> 0]

\* Rc::new(value): strong = 1, weak = 1 (the implicit weak reference)
BoxNew(v) ==
    [block |-> "live", strong |-> 1, weak |-> 1,
     slot |-> "valid", data |-> v, drops |-> 0]

\* the block is given back when the raw weak counter reaches zero
BoxDecWeak(b) ==
    LET w == b.weak - 1
    IN  [b EXCEPT !.weak = w,
                  !.block = IF w = 0 THEN "freed" ELSE @]

\* mutant: the clone is handed out without being counted
M_BoxIncStrong_NotCounted(b) == b

\* Rc::clone: inc_strong
BoxIncStrong(b) == [b EXCEPT !.strong = @ + 1]

\* mutant: downgrade bumps the wrong counter
M_BoxIncWeak_BumpsStrong(b) == [b EXCEPT !.strong = @ + 1]

\* Rc::downgrade: inc_weak
BoxIncWeak(b) == [b EXCEPT !.weak = @ + 1]

\* mutant: the last drop releases the block but never destroys the value
M_BoxDropStrong_KeepsValue(b) ==
    LET s == b.strong - 1
    IN  IF s = 0
        THEN BoxDecWeak([b EXCEPT !.strong = 0])
        ELSE [b EXCEPT !.strong = s]

\* mutant: every drop of a handle runs the destructor, not only the last
M_BoxDropStrong_DestroysEachTime(b) ==
    LET s == b.strong - 1
        d == [b EXCEPT !.strong = s, !.slot = "dropped", !.drops = @ + 1]
    IN  IF s = 0 THEN BoxDecWeak(d) ELSE d

\* mutant: the last drop frees the block even though Weak handles remain
M_BoxDropStrong_FreesUnderWeak(b) ==
    LET s == b.strong - 1
    IN  IF s = 0
        THEN [b EXCEPT !.strong = 0, !.slot = "dropped", !.drops = @ + 1,
                       !.weak = @ - 1, !.block = "freed"]
        ELSE [b EXCEPT !.strong = s]

\* drop of an Rc: dec_strong; at zero the value is destroyed in place and
\* the implicit weak reference is released (which may free the block)
BoxDropStrong(b) ==
    LET s == b.strong - 1
    IN  IF s = 0
        THEN BoxDecWeak([b EXCEPT !.strong = 0,
                                  !.slot = "dropped",
                                  !.drops = @ + 1])
        ELSE [b EXCEPT !.strong = s]

\* mutant: the last Weak to go never gives the block back
M_BoxDropWeak_NeverFrees(b) == [b EXCEPT !.weak = @ - 1]

\* drop of a Weak that points at an allocation: dec_weak, free at zero
BoxDropWeak(b) == BoxDecWeak(b)

\* mutant: try_unwrap gives the block back at once, Weak handles or not
M_BoxTakeValue_FreesBlock(b) ==
    [b EXCEPT !.strong = 0, !.slot = "moved", !.weak = @ - 1,
              !.block = "freed"]

\* Rc::try_unwrap, success path: the value is read out of the slot (not
\* destroyed), strong goes to zero, the implicit weak reference is released
BoxTakeValue(b) ==
    BoxDecWeak([b EXCEPT !.strong = 0, !.slot = "moved"])

\* ---------------------------------------------------------------- observers
\* Rc::strong_count(&h), read in the state (bx, r)
StrongCountOf(bx, r, h) == bx[r[h]].strong
strong_count(h) == StrongCountOf(box, rc, h)

\* Rc::weak_count(&h): the raw counter without the implicit weak reference
WeakCountOf(bx, r, h) == bx[r[h]].weak - 1
weak_count(h) == WeakCountOf(box, rc, h)

\* the counters of allocation a as the handles report them: strong as it
\* is, weak without the implicit reference (held while strong > 0)
BoxStrongCount(b) == b.strong
BoxWeakCount(b) == b.weak - (IF b.strong > 0 THEN 1 ELSE 0)
AllocStrongCount(a) == BoxStrongCount(box[a])
AllocWeakCount(a) == BoxWeakCount(box[a])

\* ------------------------------------------------------------------ helpers
Min(S) == CHOOSE x \in S : \A y \in S : x <= y
Unalloc == {a \in AllocIds : box[a].block = "unalloc"}
FreeRc == RcIds \ DOMAIN rc
FreeWk == WeakIds \ (DOMAIN wk \cup emptyWk)
Without(f, k) == [x \in (DOMAIN f) \ {k} |-> f[x]]

Op(name, h, a, res, ret) ==
    [op |-> name, h |-> h, a |-> a, res |-> res, ret |-> ret]

\* -------------------------------------------------------------------- Init
RcInit ==
    /\ box = [a \in AllocIds |-> NoBox]
    /\ rc = <<>>
    /\ wk = <<>>
    /\ emptyWk = {}
    /\ last = Op("init", 0, 0, "none", 0)

\* let cell = RefCell::new(42);
CellInit ==
    /\ borrowFlag = [c \in CellIds |-> 0]
    /\ cellValue = [c \in CellIds |-> 42]
    /\ guards = <<>>
    /\ cellPc = "run"
    /\ cellLast = [op |-> "new", cell |-> 0, res |-> "ok"]

\* no struct has been built yet
NoNode == [block |-> "unalloc", strong |-> 0, weak |-> 0,
           slot |-> "none", data |-> 0, drops |-> 0,
           kids |-> <<>>, wlist |-> <<>>, parent |-> 0, sparent |-> 0]

GraphOp(name, a, b, res) == [op |-> name, a |-> a, b |-> b, res |-> res]

GraphInit ==
    /\ heap = [o \in NodeIds |-> NoNode]
    /\ ext = [o \in NodeIds |-> 0]
    /\ gLast = GraphOp("init", 0, 0, "none")

\* let counter = Arc::new(Mutex::new(0)); let mut handles = vec![];
\* strong: Arc strong count; val: the i32 in the Mutex; holder: the thread
\* that holds the lock (0: free, NumThreads + 1: main); tpc / tmp: each
\* thread's position and the value it read; main: main's position
SecureIds == 1..MaxSecure
CountedIds == 1..MaxClones
WorkerIds == 1..NumWorkers
MainId == NumThreads + 1
ArcInit ==
    arc = [strong |-> 1, val |-> 0, holder |-> 0,
           tpc |-> [t \in ThreadIds |-> "unspawned"],
           tmp |-> [t \in ThreadIds |-> 0],
           main |-> "spawn", spawned |-> 0, joined |-> 0, seen |-> 0]

\* no LazyPtr yet
\* pc: "none" | "run" | "panicked"; data: Option<T> ([some, v]);
\* initFn: the closure is still there, fn its result; calls: times it ran;
\* flag: borrow flag of data; last: the call just made
LazyOp(name, res, ret, ran) ==
    [op |-> name, res |-> res, ret |-> ret, ran |-> ran]
LazyInit ==
    lazy = [pc |-> "none", some |-> FALSE, v |-> 0, initFn |-> FALSE,
            fn |-> 0, calls |-> 0, flag |-> 0,
            last |-> LazyOp("init", "ok", 0, FALSE)]

\* a SecurePtr call and its outcome: res is "ok" (a guard or a handle came
\* back), "err" (the access check failed) or "panic" (borrow conflict)
SecureOp(name, h, res, ret) == [op |-> name, h |-> h, res |-> res, ret |-> ret]

\* no SecurePtr built yet: level[h] = "none" for every handle; from[h] is the
\* handle h was made from by clone_with_access (0 for SecurePtr::new)
SecureInit ==
    sec = [level |-> [h \in SecureIds |-> "none"],
           from |-> [h \in SecureIds |-> 0],
           v |-> 0, flag |-> 0, pc |-> "run",
           last |-> SecureOp("init", 0, "ok", 0)]

\* a CountedPtr call and what it returned
CountedOp(name, h, ret) == [op |-> name, h |-> h, ret |-> ret]

\* no CountedPtr built yet. counter[h] is the Rc<RefCell<usize>> the handle h
\* holds in access_count (0: h is not alive), count[c] the usize in counter
\* c, derefs the dereferences made so far through any handle
CountedInit ==
    cnt = [counter |-> [h \in CountedIds |-> 0],
           count |-> [c \in CountedIds |-> 0],
           derefs |-> 0,
           last |-> CountedOp("init", 0, 0)]

\* create_shared_work_queue() and one worker per clone of the Arc, each at
\* the top of its loop. queue holds the tasks in Vec order, holder the
\* worker that holds the lock (0: free), task[w] what w popped (0: None),
\* done[t] how many times task t has been processed and by[t] by whom
QueueInit ==
    wq = [queue |-> [i \in 1..NumTasks |-> i],
          holder |-> 0,
          wpc |-> [w \in WorkerIds |-> "loop"],
          task |-> [w \in WorkerIds |-> 0],
          done |-> [t \in 1..NumTasks |-> 0],
          by |-> [t \in 1..NumTasks |-> 0],
          strong |-> NumWorkers]

OtherInit ==
    RcInit /\ CellInit /\ ArcInit /\ LazyInit /\ SecureInit /\ CountedInit
        /\ QueueInit

Init == OtherInit /\ GraphInit

\* ----------------------------------------------------------------- actions
\* let h = Rc::new(v);
RcNew(v) ==
    /\ Unalloc # {}
    /\ FreeRc # {}
    /\ LET a == Min(Unalloc)
           h == Min(FreeRc)
       IN  /\ box' = [box EXCEPT ![a] = BoxNew(v)]
           /\ rc' = rc @@ (h :> a)
           /\ last' = Op("new", h, a, "some", h)
    /\ UNCHANGED <<wk, emptyWk>>
    /\ UNCHANGED outsideRc

\* let h2 = Rc::clone(&h);
RcClone(h) ==
    /\ h \in DOMAIN rc
    /\ FreeRc # {}
    /\ LET a == rc[h]
           h2 == Min(FreeRc)
       IN  /\ box' = [box EXCEPT ![a] = BoxIncStrong(@)]
           /\ rc' = rc @@ (h2 :> a)
           /\ last' = Op("clone", h, a, "some", h2)
    /\ UNCHANGED <<wk, emptyWk>>
    /\ UNCHANGED outsideRc

\* drop(h);  (or h leaving scope)
RcDrop(h) ==
    /\ h \in DOMAIN rc
    /\ LET a == rc[h]
       IN  /\ box' = [box EXCEPT ![a] = BoxDropStrong(@)]
           /\ rc' = Without(rc, h)
           /\ last' = Op("drop", h, a, "none", 0)
    /\ UNCHANGED <<wk, emptyWk>>
    /\ UNCHANGED outsideRc

\* mutant: downgrade hands out the Weak without counting it
M_RcDowngrade_NotCounted(h) ==
    /\ h \in DOMAIN rc
    /\ FreeWk # {}
    /\ LET a == rc[h]
           w == Min(FreeWk)
       IN  /\ wk' = wk @@ (w :> a)
           /\ last' = Op("downgrade", h, a, "some", w)
    /\ UNCHANGED <<box, rc, emptyWk>>
    /\ UNCHANGED outsideRc

\* let w = Rc::downgrade(&h);
RcDowngrade(h) ==
    /\ h \in DOMAIN rc
    /\ FreeWk # {}
    /\ LET a == rc[h]
           w == Min(FreeWk)
       IN  /\ box' = [box EXCEPT ![a] = BoxIncWeak(@)]
           /\ wk' = wk @@ (w :> a)
           /\ last' = Op("downgrade", h, a, "some", w)
    /\ UNCHANGED <<rc, emptyWk>>
    /\ UNCHANGED outsideRc

\* mutant: Weak::new() latches onto an allocation that is alive
M_WeakNew_PointsAtAllocation ==
    /\ FreeWk # {}
    /\ LET w == Min(FreeWk)
           alive == {a \in AllocIds : box[a].strong > 0}
       IN  IF alive = {}
           THEN /\ emptyWk' = emptyWk \cup {w}
                /\ last' = Op("weak_new", w, 0, "some", w)
                /\ UNCHANGED <<box, wk>>
           ELSE /\ wk' = wk @@ (w :> Min(alive))
                /\ box' = [box EXCEPT ![Min(alive)] = BoxIncWeak(@)]
                /\ last' = Op("weak_new", w, 0, "some", w)
                /\ UNCHANGED emptyWk
    /\ UNCHANGED rc
    /\ UNCHANGED outsideRc

\* let w: Weak<T> = Weak::new();
WeakNew ==
    /\ FreeWk # {}
    /\ LET w == Min(FreeWk)
       IN  /\ emptyWk' = emptyWk \cup {w}
           /\ last' = Op("weak_new", w, 0, "some", w)
    /\ UNCHANGED <<box, rc, wk>>
    /\ UNCHANGED outsideRc

\* mutant: upgrade needs a second strong handle (off by one)
M_UpgradeSucceeds_OffByOne(w) == w \in DOMAIN wk /\ box[wk[w]].strong > 1

\* mutant: upgrade looks at the block, not at the strong counter
M_UpgradeSucceeds_WhileBlockLive(w) ==
    w \in DOMAIN wk /\ box[wk[w]].block = "live"

\* mutant: upgrade succeeds for every Weak that points at an allocation
M_UpgradeSucceeds_IgnoresCounter(w) == w \in DOMAIN wk

\* w.upgrade(): None for an empty handle or when strong == 0, otherwise
\* inc_strong and Some(new Rc)
UpgradeSucceeds(w) == w \in DOMAIN wk /\ box[wk[w]].strong > 0

WeakUpgrade(w) ==
    /\ w \in DOMAIN wk \cup emptyWk
    /\ IF UpgradeSucceeds(w)
       THEN /\ FreeRc # {}
            /\ LET a == wk[w]
                   h == Min(FreeRc)
               IN  /\ box' = [box EXCEPT ![a] = BoxIncStrong(@)]
                   /\ rc' = rc @@ (h :> a)
                   /\ last' = Op("upgrade", w, a, "some", h)
       ELSE /\ last' = Op("upgrade", w,
                          IF w \in DOMAIN wk THEN wk[w] ELSE 0, "none", 0)
            /\ UNCHANGED <<box, rc>>
    /\ UNCHANGED <<wk, emptyWk>>
    /\ UNCHANGED outsideRc

\* drop(w);  an empty handle has no counters to touch
WeakDrop(w) ==
    /\ w \in DOMAIN wk \cup emptyWk
    /\ IF w \in DOMAIN wk
       THEN /\ box' = [box EXCEPT ![wk[w]] = BoxDropWeak(@)]
            /\ wk' = Without(wk, w)
            /\ last' = Op("weak_drop", w, wk[w], "none", 0)
            /\ UNCHANGED emptyWk
       ELSE /\ emptyWk' = emptyWk \ {w}
            /\ last' = Op("weak_drop", w, 0, "none", 0)
            /\ UNCHANGED <<box, wk>>
    /\ UNCHANGED rc
    /\ UNCHANGED outsideRc

\* mutant: try_unwrap takes the value whatever the other owners
M_RcTryUnwrap_IgnoresOwners(h) ==
    /\ h \in DOMAIN rc
    /\ LET a == rc[h]
       IN  /\ box' = [box EXCEPT ![a] =
                         IF @.strong = 1
                         THEN BoxTakeValue(@)
                         ELSE [@ EXCEPT !.strong = @ - 1, !.slot = "moved"]]
           /\ rc' = Without(rc, h)
           /\ last' = Op("try_unwrap", h, a, "ok", box[a].data)
    /\ UNCHANGED <<wk, emptyWk>>
    /\ UNCHANGED outsideRc

\* Rc::try_unwrap(h): Ok(value) when strong_count == 1, else Err(h)
RcTryUnwrap(h) ==
    /\ h \in DOMAIN rc
    /\ LET a == rc[h]
       IN  IF strong_count(h) = 1
           THEN /\ box' = [box EXCEPT ![a] = BoxTakeValue(@)]
                /\ rc' = Without(rc, h)
                /\ last' = Op("try_unwrap", h, a, "ok", box[a].data)
           ELSE /\ last' = Op("try_unwrap", h, a, "err", h)
                /\ UNCHANGED <<box, rc>>
    /\ UNCHANGED <<wk, emptyWk>>
    /\ UNCHANGED outsideRc

\* mutant: get_mut only counts the strong handles
M_IsUnique_IgnoresWeak(h) == strong_count(h) = 1

\* Rc::get_mut(&mut h): the handle is the only one of either kind
IsUnique(h) == strong_count(h) = 1 /\ weak_count(h) = 0

\* Rc::get_mut(&mut h): Some(&mut value) for a unique handle, else None;
\* no counter is touched
RcGetMut(h) ==
    /\ h \in DOMAIN rc
    /\ last' = Op("get_mut", h, rc[h],
                  IF IsUnique(h) THEN "some" ELSE "none", 0)
    /\ UNCHANGED <<box, rc, wk, emptyWk>>
    /\ UNCHANGED outsideRc

\* mutant: strong_count keeps a handle of its own while it reads
M_RcStrongCount_CountsItself(h) ==
    /\ h \in DOMAIN rc
    /\ box' = [box EXCEPT ![rc[h]] = BoxIncStrong(@)]
    /\ last' = Op("strong_count", h, rc[h], "some", strong_count(h))
    /\ UNCHANGED <<rc, wk, emptyWk>>
    /\ UNCHANGED outsideRc

\* Rc::strong_count(&h)
RcStrongCount(h) ==
    /\ h \in DOMAIN rc
    /\ last' = Op("strong_count", h, rc[h], "some", strong_count(h))
    /\ UNCHANGED <<box, rc, wk, emptyWk>>
    /\ UNCHANGED outsideRc

\* Rc::weak_count(&h)
RcWeakCount(h) ==
    /\ h \in DOMAIN rc
    /\ last' = Op("weak_count", h, rc[h], "some", weak_count(h))
    /\ UNCHANGED <<box, rc, wk, emptyWk>>
    /\ UNCHANGED outsideRc

Next ==
    \/ \E v \in Values : RcNew(v)
    \/ \E h \in RcIds : RcClone(h)
    \/ \E h \in RcIds : RcDrop(h)
    \/ \E h \in RcIds : RcDowngrade(h)
    \/ WeakNew
    \/ \E w \in WeakIds : WeakUpgrade(w)
    \/ \E w \in WeakIds : WeakDrop(w)
    \/ \E h \in RcIds : RcTryUnwrap(h)
    \/ \E h \in RcIds : RcGetMut(h)
    \/ \E h \in RcIds : RcStrongCount(h)
    \/ \E h \in RcIds : RcWeakCount(h)

Spec == Init /\ [][Next]_vars

\* ------------------------------------------------------- RefCell and guards
\* The borrow flag as the guards leave it.
\* mutant: a shared borrow is granted only to the first reader
M_CanBorrow_OnlyFirstReader(f) == f = 0
\* BorrowRef::new: one more reader, allowed while the flag is not "writing"
CanBorrow(f) == f + 1 > 0
\* mutant: an exclusive borrow is refused only while another one is alive
M_CanBorrowMut_IgnoresReaders(f) == f >= 0

\* mutant: an exclusive borrow is granted again while one is alive
M_CanBorrowMut_Reentrant(f) == f <= 0
\* BorrowRefMut::new: allowed only from the unused flag
CanBorrowMut(f) == f = 0
\* mutant: releasing one Ref clears the flag although other readers remain
M_FlagAfterRefDrop_Clears(f) == 0
\* mutant: releasing the RefMut leaves the flag at "writing"
M_FlagAfterRefMutDrop_StaysWriting(f) == f
\* Ref released: one reader fewer;  RefMut released: back to unused
FlagAfterRefDrop(f) == f - 1
FlagAfterRefMutDrop(f) == f + 1

RemoveAt(s, i) == [j \in 1..(Len(s) - 1) |-> IF j < i THEN s[j] ELSE s[j + 1]]

Guard(c, k) == [cell |-> c, kind |-> k]
CellOp(name, c, res) == [op |-> name, cell |-> c, res |-> res]

\* cell.try_borrow(): Ok(Ref) or Err(BorrowError), the cell untouched on Err
CellTryBorrow(c) ==
    /\ cellPc = "run"
    /\ IF CanBorrow(borrowFlag[c])
       THEN /\ Len(guards) < MaxGuards
            /\ borrowFlag' = [borrowFlag EXCEPT ![c] = @ + 1]
            /\ guards' = Append(guards, Guard(c, "ref"))
            /\ cellLast' = CellOp("try_borrow", c, "ok")
       ELSE /\ cellLast' = CellOp("try_borrow", c, "err")
            /\ UNCHANGED <<borrowFlag, guards>>
    /\ UNCHANGED <<cellValue, cellPc>>
    /\ UNCHANGED outsideCell

\* mutant: try_borrow_mut marks the cell as written before it checks
M_CellTryBorrowMut_MarksBeforeCheck(c) ==
    /\ cellPc = "run"
    /\ IF CanBorrowMut(borrowFlag[c])
       THEN /\ Len(guards) < MaxGuards
            /\ borrowFlag' = [borrowFlag EXCEPT ![c] = @ - 1]
            /\ guards' = Append(guards, Guard(c, "mut"))
            /\ cellLast' = CellOp("try_borrow_mut", c, "ok")
       ELSE /\ borrowFlag' = [borrowFlag EXCEPT ![c] = -1]
            /\ cellLast' = CellOp("try_borrow_mut", c, "err")
            /\ UNCHANGED guards
    /\ UNCHANGED <<cellValue, cellPc>>
    /\ UNCHANGED outsideCell

\* cell.try_borrow_mut(): Ok(RefMut) or Err(BorrowMutError)
CellTryBorrowMut(c) ==
    /\ cellPc = "run"
    /\ IF CanBorrowMut(borrowFlag[c])
       THEN /\ Len(guards) < MaxGuards
            /\ borrowFlag' = [borrowFlag EXCEPT ![c] = @ - 1]
            /\ guards' = Append(guards, Guard(c, "mut"))
            /\ cellLast' = CellOp("try_borrow_mut", c, "ok")
       ELSE /\ cellLast' = CellOp("try_borrow_mut", c, "err")
            /\ UNCHANGED <<borrowFlag, guards>>
    /\ UNCHANGED <<cellValue, cellPc>>
    /\ UNCHANGED outsideCell

\* mutant: borrow waits for the writer to release instead of panicking
M_CellBorrow_WaitsForWriter(c) ==
    /\ cellPc = "run"
    /\ CanBorrow(borrowFlag[c])
    /\ Len(guards) < MaxGuards
    /\ borrowFlag' = [borrowFlag EXCEPT ![c] = @ + 1]
    /\ guards' = Append(guards, Guard(c, "ref"))
    /\ cellLast' = CellOp("borrow", c, "ok")
    /\ UNCHANGED <<cellValue, cellPc>>
    /\ UNCHANGED outsideCell

\* cell.borrow(): the Ref, or a panic where try_borrow gives Err
CellBorrow(c) ==
    /\ cellPc = "run"
    /\ IF CanBorrow(borrowFlag[c])
       THEN /\ Len(guards) < MaxGuards
            /\ borrowFlag' = [borrowFlag EXCEPT ![c] = @ + 1]
            /\ guards' = Append(guards, Guard(c, "ref"))
            /\ cellLast' = CellOp("borrow", c, "ok")
            /\ UNCHANGED cellPc
       ELSE /\ cellPc' = "unwinding"
            /\ cellLast' = CellOp("borrow", c, "panic")
            /\ UNCHANGED <<borrowFlag, guards>>
    /\ UNCHANGED cellValue
    /\ UNCHANGED outsideCell

\* cell.borrow_mut(): the RefMut, or a panic where try_borrow_mut gives Err
CellBorrowMut(c) ==
    /\ cellPc = "run"
    /\ IF CanBorrowMut(borrowFlag[c])
       THEN /\ Len(guards) < MaxGuards
            /\ borrowFlag' = [borrowFlag EXCEPT ![c] = @ - 1]
            /\ guards' = Append(guards, Guard(c, "mut"))
            /\ cellLast' = CellOp("borrow_mut", c, "ok")
            /\ UNCHANGED cellPc
       ELSE /\ cellPc' = "unwinding"
            /\ cellLast' = CellOp("borrow_mut", c, "panic")
            /\ UNCHANGED <<borrowFlag, guards>>
    /\ UNCHANGED cellValue
    /\ UNCHANGED outsideCell

\* *guard = v;  through a live RefMut
RefMutWrite(i, v) ==
    /\ cellPc = "run"
    /\ i \in DOMAIN guards
    /\ guards[i].kind = "mut"
    /\ cellValue' = [cellValue EXCEPT ![guards[i].cell] = v]
    /\ cellLast' = CellOp("write", guards[i].cell, "ok")
    /\ UNCHANGED <<borrowFlag, guards, cellPc>>
    /\ UNCHANGED outsideCell

\* the flag of the guard's cell once the guard is released
FlagsAfterRelease(g) ==
    [borrowFlag EXCEPT ![g.cell] = IF g.kind = "ref"
                                   THEN FlagAfterRefDrop(@)
                                   ELSE FlagAfterRefMutDrop(@)]

\* mutant: the Ref goes away without giving its share of the flag back
M_RefDrop_KeepsFlag(i) ==
    /\ cellPc = "run"
    /\ i \in DOMAIN guards
    /\ guards[i].kind = "ref"
    /\ guards' = RemoveAt(guards, i)
    /\ cellLast' = CellOp("ref_drop", guards[i].cell, "ok")
    /\ UNCHANGED <<borrowFlag, cellValue, cellPc>>
    /\ UNCHANGED outsideCell

\* a Ref guard goes out of scope (or is dropped)
RefDrop(i) ==
    /\ cellPc = "run"
    /\ i \in DOMAIN guards
    /\ guards[i].kind = "ref"
    /\ borrowFlag' = FlagsAfterRelease(guards[i])
    /\ guards' = RemoveAt(guards, i)
    /\ cellLast' = CellOp("ref_drop", guards[i].cell, "ok")
    /\ UNCHANGED <<cellValue, cellPc>>
    /\ UNCHANGED outsideCell

\* a RefMut guard goes out of scope (or is dropped)
RefMutDrop(i) ==
    /\ cellPc = "run"
    /\ i \in DOMAIN guards
    /\ guards[i].kind = "mut"
    /\ borrowFlag' = FlagsAfterRelease(guards[i])
    /\ guards' = RemoveAt(guards, i)
    /\ cellLast' = CellOp("refmut_drop", guards[i].cell, "ok")
    /\ UNCHANGED <<cellValue, cellPc>>
    /\ UNCHANGED outsideCell

\* mutant: the panic leaves the frames without running the guards' drop
M_Unwind_LeaksGuards ==
    /\ cellPc = "unwinding"
    /\ cellPc' = "run"
    /\ guards' = <<>>
    /\ cellLast' = CellOp("unwound", 0, "ok")
    /\ UNCHANGED <<borrowFlag, cellValue>>
    /\ UNCHANGED outsideCell

\* a panic propagates: the guards of the frames it leaves are dropped, most
\* recent first; with none left the panic has left the cells' users
Unwind ==
    /\ cellPc = "unwinding"
    /\ IF guards = <<>>
       THEN /\ cellPc' = "run"
            /\ cellLast' = CellOp("unwound", 0, "ok")
            /\ UNCHANGED <<borrowFlag, guards>>
       ELSE /\ borrowFlag' = FlagsAfterRelease(guards[Len(guards)])
            /\ guards' = RemoveAt(guards, Len(guards))
            /\ cellLast' = CellOp("unwind_drop", guards[Len(guards)].cell, "ok")
            /\ UNCHANGED cellPc
    /\ UNCHANGED cellValue
    /\ UNCHANGED outsideCell

\* the live guards of cell c
RefGuards(c) == {i \in DOMAIN guards : guards[i] = Guard(c, "ref")}
MutGuards(c) == {i \in DOMAIN guards : guards[i] = Guard(c, "mut")}

CellNext ==
    \/ \E c \in CellIds : CellTryBorrow(c)
    \/ \E c \in CellIds : CellTryBorrowMut(c)
    \/ \E c \in CellIds : CellBorrow(c)
    \/ \E c \in CellIds : CellBorrowMut(c)
    \/ \E i \in 1..MaxGuards, v \in Values : RefMutWrite(i, v)
    \/ \E i \in 1..MaxGuards : RefDrop(i)
    \/ \E i \in 1..MaxGuards : RefMutDrop(i)
    \/ Unwind

CellSpec == Init /\ [][CellNext]_vars

\* ------------------------------------------- main: the 100 copies of one Rc
\* for i in 0..100 { copies.push(Rc::clone(&large_data)); }
NumCopies == 100

\* handle 1 is large_data, handles 2 .. NumCopies + 1 are copies[0 ..]
CopyIds == 2..(NumCopies + 1)

\* let large_data = Rc::new(vec![0u8; 1000]);
LargeDataNew ==
    /\ box[1].block = "unalloc"
    /\ box' = [box EXCEPT ![1] = BoxNew(0)]
    /\ rc' = (1 :> 1)
    /\ last' = Op("new", 1, 1, "some", 1)
    /\ UNCHANGED <<wk, emptyWk>>
    /\ UNCHANGED outsideRc

\* mutant: the copy is pushed without counting it
M_CopiesPush_NotCounted ==
    /\ last.op \in {"new", "clone"}
    /\ 1 \in DOMAIN rc
    /\ CopyIds \ DOMAIN rc # {}
    /\ rc' = rc @@ (Min(CopyIds \ DOMAIN rc) :> 1)
    /\ last' = Op("clone", 1, 1, "some", Min(CopyIds \ DOMAIN rc))
    /\ UNCHANGED <<box, wk, emptyWk>>
    /\ UNCHANGED outsideRc

\* copies.push(Rc::clone(&large_data));   one turn of the loop
CopiesPush ==
    /\ last.op \in {"new", "clone"}
    /\ 1 \in DOMAIN rc
    /\ CopyIds \ DOMAIN rc # {}
    /\ box' = [box EXCEPT ![1] = BoxIncStrong(@)]
    /\ rc' = rc @@ (Min(CopyIds \ DOMAIN rc) :> 1)
    /\ last' = Op("clone", 1, 1, "some", Min(CopyIds \ DOMAIN rc))
    /\ UNCHANGED <<wk, emptyWk>>
    /\ UNCHANGED outsideRc

\* the handle the end of main drops next: the elements of copies from the
\* front (copies is declared after large_data), then large_data
NextToDrop == IF DOMAIN rc \ {1} # {} THEN Min(DOMAIN rc \ {1}) ELSE 1

\* end of main: one handle is dropped
ScopeEndDrop ==
    /\ \/ last.op = "clone" /\ CopyIds \ DOMAIN rc = {}
       \/ last.op = "drop"
    /\ DOMAIN rc # {}
    /\ box' = [box EXCEPT ![1] = BoxDropStrong(@)]
    /\ rc' = Without(rc, NextToDrop)
    /\ last' = Op("drop", NextToDrop, 1, "none", 0)
    /\ UNCHANGED <<wk, emptyWk>>
    /\ UNCHANGED outsideRc

\* handles dropped so far, once the drops have begun
DropsDone == (NumCopies + 1) - Cardinality(DOMAIN rc)

CopiesNext ==
    \/ LargeDataNew
    \/ CopiesPush
    \/ ScopeEndDrop

CopiesSpec == Init /\ [][CopiesNext]_vars

\* ------------------------------------- structs that hold Rc / Weak handles
\* A struct behind an Rc has the RcBox counters and the handles in its
\* fields: kids (Vec<Rc<_>>), wlist (Vec<Weak<_>>), parent (Weak<_>, 0 for
\* Weak::new()), sparent (Option<Rc<_>>, 0 for None).
NodeValues == {1}

\* Rc::new(TreeNode { value, children: Vec::new(), parent: Weak::new() })
NodeNew(v) ==
    [block |-> "live", strong |-> BoxNew(v).strong, weak |-> BoxNew(v).weak,
     slot |-> "valid", data |-> v, drops |-> 0,
     kids |-> <<>>, wlist |-> <<>>, parent |-> 0, sparent |-> 0]

\* a Weak held in a field is dropped (nothing to do for Weak::new())
HeapDropWeak(hp, o) ==
    IF o = 0 THEN hp ELSE [hp EXCEPT ![o] = BoxDropWeak(@)]

RECURSIVE HeapDropWeaks(_, _)
HeapDropWeaks(hp, s) ==
    IF s = <<>> THEN hp
    ELSE HeapDropWeaks(HeapDropWeak(hp, Head(s)), Tail(s))

\* mutant: the struct is destroyed without dropping the handles it holds
M_HeapDropRc_KeepsFields(hp, o) == [hp EXCEPT ![o] = BoxDropStrong(@)]

\* an Rc to struct o is dropped; when it was the last one the struct is
\* destroyed, which drops the handles in its fields in declaration order
RECURSIVE HeapDropRc(_, _)
RECURSIVE HeapDropRcs(_, _)
HeapDropRc(hp, o) ==
    IF hp[o].strong # 1
    THEN [hp EXCEPT ![o] = BoxDropStrong(@)]
    ELSE LET f == hp[o]
             h0 == [hp EXCEPT ![o] = [BoxDropStrong(@) EXCEPT
                                         !.kids = <<>>, !.wlist = <<>>,
                                         !.parent = 0, !.sparent = 0]]
             h1 == HeapDropRcs(h0, f.kids)
             h2 == HeapDropWeaks(h1, f.wlist)
             h3 == HeapDropWeak(h2, f.parent)
         IN  IF f.sparent = 0 THEN h3 ELSE HeapDropRc(h3, f.sparent)

HeapDropRcs(hp, s) ==
    IF s = <<>> THEN hp
    ELSE HeapDropRcs(HeapDropRc(hp, Head(s)), Tail(s))

UnallocNodes == {o \in DOMAIN heap : heap[o].block = "unalloc"}

\* Weak::upgrade on a handle stored in a field
LinkUpgrades(hp, p) == p # 0 /\ hp[p].strong > 0

\* ------------------------------------------------------------- TreeNode
\* let n = TreeNode::new(v);
TreeNew(v) ==
    /\ UnallocNodes # {}
    /\ LET o == Min(UnallocNodes)
       IN  /\ heap' = [heap EXCEPT ![o] = NodeNew(v)]
           /\ ext' = [ext EXCEPT ![o] = 1]
           /\ gLast' = GraphOp("new", o, 0, "some")
    /\ UNCHANGED outsideGraph

\* n.clone()  (Rc::clone of a handle in a local variable)
NodeClone(o) ==
    /\ ext[o] >= 1
    /\ heap[o].strong < MaxStrong
    /\ heap' = [heap EXCEPT ![o] = BoxIncStrong(@)]
    /\ ext' = [ext EXCEPT ![o] = @ + 1]
    /\ gLast' = GraphOp("clone", o, 0, "some")
    /\ UNCHANGED outsideGraph

\* how many structs a step destroys
Destroyed(hp, hq) ==
    Cardinality({x \in DOMAIN hp : hp[x].slot = "valid"
                                     /\ hq[x].slot = "dropped"})

\* drop(n)  (a local handle goes out of scope)
NodeDrop(o) ==
    /\ ext[o] >= 1
    /\ heap' = HeapDropRc(heap, o)
    /\ ext' = [ext EXCEPT ![o] = @ - 1]
    /\ gLast' = GraphOp("drop", o, Destroyed(heap, HeapDropRc(heap, o)), "none")
    /\ UNCHANGED outsideGraph

\* mutant: the child is pushed but its parent link is left as it was
M_AddChild_LinkNotSet(p, c) ==
    /\ ext[p] >= 1
    /\ ext[c] >= (IF p = c THEN 2 ELSE 1)
    /\ heap' = [heap EXCEPT ![p].kids = Append(@, c)]
    /\ ext' = [ext EXCEPT ![c] = @ - 1]
    /\ gLast' = GraphOp("add_child", p, c, "none")
    /\ UNCHANGED outsideGraph

\* mutant: the parent link is set only for a child that has none yet
M_AddChild_LinkSetOnce(p, c) ==
    /\ ext[p] >= 1
    /\ ext[c] >= (IF p = c THEN 2 ELSE 1)
    /\ LET h1 == IF heap[c].parent = 0
                 THEN [heap EXCEPT ![p] = BoxIncWeak(@), ![c].parent = p]
                 ELSE heap
       IN  heap' = [h1 EXCEPT ![p].kids = Append(@, c)]
    /\ ext' = [ext EXCEPT ![c] = @ - 1]
    /\ gLast' = GraphOp("add_child", p, c, "none")
    /\ UNCHANGED outsideGraph

\* mutant: the child keeps its parent with an owning handle
M_AddChild_StrongParent(p, c) ==
    /\ ext[p] >= 1
    /\ ext[c] >= (IF p = c THEN 2 ELSE 1)
    /\ LET h1 == [heap EXCEPT ![p] = BoxIncStrong(@)]
           h2 == IF heap[c].sparent = 0 THEN h1
                 ELSE [h1 EXCEPT ![heap[c].sparent] = BoxDropStrong(@)]
           h3 == [h2 EXCEPT ![c].sparent = p]
       IN  heap' = [h3 EXCEPT ![p].kids = Append(@, c)]
    /\ ext' = [ext EXCEPT ![c] = @ - 1]
    /\ gLast' = GraphOp("add_child", p, c, "none")
    /\ UNCHANGED outsideGraph

\* TreeNode::add_child(&p, c): the child's parent link is replaced by
\* Rc::downgrade(&p) (the old Weak is dropped) and the handle c is moved
\* into p.children
AddChild(p, c) ==
    /\ ext[p] >= 1
    /\ ext[c] >= (IF p = c THEN 2 ELSE 1)
    /\ LET h1 == [heap EXCEPT ![p] = BoxIncWeak(@)]
           h2 == HeapDropWeak(h1, heap[c].parent)
           h3 == [h2 EXCEPT ![c].parent = p]
       IN  heap' = [h3 EXCEPT ![p].kids = Append(@, c)]
    /\ ext' = [ext EXCEPT ![c] = @ - 1]
    /\ gLast' = GraphOp("add_child", p, c, "none")
    /\ UNCHANGED outsideGraph

\* c.get_parent(): self.parent.borrow().upgrade(); Some(rc) is a new local
\* handle to the parent
GetParent(c) ==
    /\ ext[c] >= 1
    /\ LET p == heap[c].parent
       IN  IF LinkUpgrades(heap, p)
           THEN /\ heap[p].strong < MaxStrong
                /\ heap' = [heap EXCEPT ![p] = BoxIncStrong(@)]
                /\ ext' = [ext EXCEPT ![p] = @ + 1]
                /\ gLast' = GraphOp("get_parent", c, p, "some")
           ELSE /\ gLast' = GraphOp("get_parent", c, p, "none")
                /\ UNCHANGED <<heap, ext>>
    /\ UNCHANGED outsideGraph

TreeNext ==
    \/ \E v \in NodeValues : TreeNew(v)
    \/ \E o \in NodeIds : NodeClone(o)
    \/ \E o \in NodeIds : NodeDrop(o)
    \/ \E p, c \in NodeIds : AddChild(p, c)
    \/ \E c \in NodeIds : GetParent(c)

TreeSpec == Init /\ [][TreeNext]_vars

\* -------------------------------------------------------------- BadNode
\* payloads: BadNode::new(1), BadNode::new(2)
BadValues == {1, 2}

\* let n = BadNode::new(v);
BadNew(v) ==
    /\ UnallocNodes # {}
    /\ LET o == Min(UnallocNodes)
       IN  /\ heap' = [heap EXCEPT ![o] = NodeNew(v)]
           /\ ext' = [ext EXCEPT ![o] = 1]
           /\ gLast' = GraphOp("new", o, 0, "some")
    /\ UNCHANGED outsideGraph

\* mutant: the parent is stored without being counted
M_AddChildBad_ParentNotCounted(p, c) ==
    /\ ext[p] >= 1
    /\ ext[c] >= (IF p = c THEN 2 ELSE 1)
    /\ LET h2 == IF heap[c].sparent = 0 THEN heap
                 ELSE HeapDropRc(heap, heap[c].sparent)
           h3 == [h2 EXCEPT ![c].sparent = p]
       IN  heap' = [h3 EXCEPT ![p].kids = Append(@, c)]
    /\ ext' = [ext EXCEPT ![c] = @ - 1]
    /\ gLast' = GraphOp("add_child_bad", p, c, "none")
    /\ UNCHANGED outsideGraph

\* BadNode::add_child_bad(&p, c): the child's parent becomes
\* Some(Rc::clone(&p)) (the old Option<Rc> is dropped) and the handle c is
\* moved into p.children
AddChildBad(p, c) ==
    /\ ext[p] >= 1
    /\ ext[c] >= (IF p = c THEN 2 ELSE 1)
    /\ heap[p].strong < MaxStrong
    /\ LET h1 == [heap EXCEPT ![p] = BoxIncStrong(@)]
           h2 == IF heap[c].sparent = 0 THEN h1
                 ELSE HeapDropRc(h1, heap[c].sparent)
           h3 == [h2 EXCEPT ![c].sparent = p]
       IN  heap' = [h3 EXCEPT ![p].kids = Append(@, c)]
    /\ ext' = [ext EXCEPT ![c] = @ - 1]
    /\ gLast' = GraphOp("add_child_bad", p, c, "none")
    /\ UNCHANGED outsideGraph

BadNext ==
    \/ \E v \in BadValues : BadNew(v)
    \/ \E o \in NodeIds : NodeClone(o)
    \/ \E o \in NodeIds : NodeDrop(o)
    \/ \E p, c \in NodeIds : AddChildBad(p, c)

BadSpec == Init /\ [][BadNext]_vars

\* --------------------------------------------------- Subject and Observer
\* the subject of the test is the first struct built, the observers follow
SubjectId == 1
ObserverIds == (SubjectId + 1)..(SubjectId + MaxObservers)
ObsNodeIds == {SubjectId} \cup ObserverIds

\* let subject = Subject::new(v);   { value: v, observers: Vec::new() }
SubjectNew(v) ==
    /\ heap[SubjectId].block = "unalloc"
    /\ heap' = [heap EXCEPT ![SubjectId] = NodeNew(v)]
    /\ ext' = [ext EXCEPT ![SubjectId] = 1]
    /\ gLast' = GraphOp("new", SubjectId, 0, "some")
    /\ UNCHANGED outsideGraph

\* let observer = Observer::new(id);   { id, subject: Weak::new() }
ObserverNew ==
    /\ heap[SubjectId].block # "unalloc"
    /\ UnallocNodes # {}
    /\ LET o == Min(UnallocNodes)
       IN  /\ heap' = [heap EXCEPT ![o] = NodeNew(o)]
           /\ ext' = [ext EXCEPT ![o] = 1]
           /\ gLast' = GraphOp("new", o, 0, "some")
    /\ UNCHANGED outsideGraph

\* subject.add_observer(&observer): the observer gets a Weak to the subject
\* (the old one is dropped), the subject pushes a Weak to the observer
AddObserver(o) ==
    /\ ext[SubjectId] >= 1
    /\ o \in ObserverIds /\ ext[o] >= 1
    /\ Len(heap[SubjectId].wlist) < MaxRegs
    /\ LET h1 == [heap EXCEPT ![SubjectId] = BoxIncWeak(@)]
           h2 == HeapDropWeak(h1, heap[o].parent)
           h3 == [h2 EXCEPT ![o].parent = SubjectId]
           h4 == [h3 EXCEPT ![o] = BoxIncWeak(@)]
       IN  heap' = [h4 EXCEPT ![SubjectId].wlist = Append(@, o)]
    /\ gLast' = GraphOp("add_observer", SubjectId, o, "none")
    /\ UNCHANGED ext
    /\ UNCHANGED outsideGraph

\* observers.retain(|w| w.upgrade().is_some()): the entries kept, in order
Retained(hp, s) ==
    SelectSeq(s, LAMBDA w : LinkUpgrades(hp, w))

\* the Weak handles retain removes are dropped
Removed(hp, s) ==
    SelectSeq(s, LAMBDA w : ~LinkUpgrades(hp, w))

\* one step of a method on the RefCells of the subject: kind is "borrow",
\* "borrow_mut" or "release", cell is "value" or "observers"
Ev(kind, cell) == [kind |-> kind, cell |-> cell]

\* no guard on the subject's cells outlives a method call: get_value and
\* observer_count return plain values, set_value and add_observer nothing
NoBorrows == [c \in {"value", "observers"} |-> 0]

\* the borrow events of on_notify(self.get_value()) for n live observers
RECURSIVE NotifyBorrows(_)
NotifyBorrows(n) ==
    IF n = 0 THEN <<>>
    ELSE <<Ev("borrow", "value"), Ev("release", "value")>> \o NotifyBorrows(n - 1)

\* mutant: set_value keeps the RefMut on value in a local while it notifies
M_SetValueBorrows_GuardHeld(n) ==
    <<Ev("borrow_mut", "value"), Ev("borrow_mut", "observers")>>
        \o NotifyBorrows(n)
        \o <<Ev("release", "observers"), Ev("release", "value")>>

\* the borrow events of set_value with n live observers registered:
\* *value.borrow_mut() = v (a temporary), then notify_observers, which holds
\* observers.borrow_mut() across retain while the closure reads the value
SetValueBorrows(n) ==
    <<Ev("borrow_mut", "value"), Ev("release", "value"),
      Ev("borrow_mut", "observers")>>
        \o NotifyBorrows(n)
        \o <<Ev("release", "observers")>>

\* a sequence of borrow events run from the flags fl meets a panic: a borrow
\* of a cell being written, or a borrow_mut of a cell borrowed in any way
RECURSIVE Conflict(_, _)
Conflict(fl, evs) ==
    IF evs = <<>> THEN FALSE
    ELSE LET e == Head(evs)
             f == fl[e.cell]
         IN  IF e.kind = "borrow"
             THEN IF CanBorrow(f)
                  THEN Conflict([fl EXCEPT ![e.cell] = f + 1], Tail(evs))
                  ELSE TRUE
             ELSE IF e.kind = "borrow_mut"
             THEN IF CanBorrowMut(f)
                  THEN Conflict([fl EXCEPT ![e.cell] = f - 1], Tail(evs))
                  ELSE TRUE
             ELSE Conflict([fl EXCEPT ![e.cell] =
                               IF f > 0 THEN FlagAfterRefDrop(f)
                               ELSE FlagAfterRefMutDrop(f)], Tail(evs))

\* mutant: set_value notifies but keeps the entries of dead observers
M_SetValue_KeepsDeadEntries(v) ==
    /\ ext[SubjectId] >= 1
    /\ heap' = [heap EXCEPT ![SubjectId].data = v]
    /\ gLast' = GraphOp("set_value", SubjectId, 0, "none")
    /\ UNCHANGED ext
    /\ UNCHANGED outsideGraph

\* subject.set_value(v): store v, then notify_observers, which upgrades
\* every entry, calls on_notify on the live ones (the upgraded handle is
\* dropped at once) and removes the dead ones
SetValue(v) ==
    /\ ext[SubjectId] >= 1
    /\ LET ws == heap[SubjectId].wlist
           h1 == [heap EXCEPT ![SubjectId].data = v,
                              ![SubjectId].wlist = Retained(heap, ws)]
       IN  IF Conflict(NoBorrows, SetValueBorrows(Len(Retained(heap, ws))))
           THEN /\ heap' = [heap EXCEPT ![SubjectId].data = v]
                /\ gLast' = GraphOp("set_value", SubjectId, 0, "panic")
           ELSE /\ heap' = HeapDropWeaks(h1, Removed(heap, ws))
                /\ gLast' = GraphOp("set_value", SubjectId,
                                    Len(Removed(heap, ws)), "none")
    /\ UNCHANGED ext
    /\ UNCHANGED outsideGraph

\* subject.get_value(): *self.value.borrow(), the Ref a temporary
GetValue ==
    /\ ext[SubjectId] >= 1
    /\ gLast' = GraphOp("get_value", SubjectId, heap[SubjectId].data,
                        IF Conflict(NoBorrows, <<Ev("borrow", "value"),
                                                 Ev("release", "value")>>)
                        THEN "panic" ELSE "some")
    /\ UNCHANGED <<heap, ext>>
    /\ UNCHANGED outsideGraph

\* subject.observer_count()
ObserverCount ==
    /\ ext[SubjectId] >= 1
    /\ gLast' = GraphOp("observer_count", SubjectId,
                        Len(heap[SubjectId].wlist), "some")
    /\ UNCHANGED <<heap, ext>>
    /\ UNCHANGED outsideGraph

\* observer.get_subject_value(): upgrade of the stored Weak, the value read
\* through the temporary handle
GetSubjectValue(o) ==
    /\ o \in ObserverIds /\ ext[o] >= 1
    /\ gLast' = IF LinkUpgrades(heap, heap[o].parent)
                THEN GraphOp("get_subject_value", o,
                             heap[heap[o].parent].data, "some")
                ELSE GraphOp("get_subject_value", o, 0, "none")
    /\ UNCHANGED <<heap, ext>>
    /\ UNCHANGED outsideGraph

ObsNext ==
    \/ \E v \in Values : SubjectNew(v)
    \/ ObserverNew
    \/ \E o \in ObsNodeIds : NodeClone(o)
    \/ \E o \in ObsNodeIds : NodeDrop(o)
    \/ \E o \in ObserverIds : AddObserver(o)
    \/ \E v \in Values : SetValue(v)
    \/ GetValue
    \/ ObserverCount
    \/ \E o \in ObserverIds : GetSubjectValue(o)

\* nothing built yet: room for the subject and its observers
ObsInit ==
    /\ OtherInit
    /\ heap = [o \in ObsNodeIds |-> NoNode]
    /\ ext = [o \in ObsNodeIds |-> 0]
    /\ gLast = GraphOp("init", 0, 0, "none")

ObsSpec == ObsInit /\ [][ObsNext]_vars

\* ------------------------------------------------ Cache and CacheEntry
\* the cache is the first struct built; every insert builds one entry
CacheId == 1
EntryIds == (CacheId + 1)..(CacheId + MaxInserts)
CacheNodeIds == {CacheId} \cup EntryIds

\* Cache::new(2), Cache::new(3) in the source; 1 to see repeated eviction
MaxSizes == {1, 2}

\* "key1", "key2"
Keys == {1, 2}

\* let cache = Cache::new(m);   { entries: Vec::new(), max_size: m }
CacheNew(m) ==
    /\ heap[CacheId].block = "unalloc"
    /\ heap' = [heap EXCEPT ![CacheId] = NodeNew(m)]
    /\ ext' = [ext EXCEPT ![CacheId] = 1]
    /\ gLast' = GraphOp("new", CacheId, 0, "some")
    /\ UNCHANGED outsideGraph

\* entries after the push and, past max_size, entries.remove(0)
EntriesAfterInsert(es, e, m) ==
    IF Len(es) + 1 > m THEN Tail(Append(es, e)) ELSE Append(es, e)

\* the entry remove(0) takes out (0: none)
Evicted(es, e, m) ==
    IF Len(es) + 1 > m THEN Head(Append(es, e)) ELSE 0

\* mutant: past max_size the newest entry is taken out, not the oldest
M_CacheInsert_EvictsNewest(k) ==
    /\ ext[CacheId] >= 1
    /\ UnallocNodes # {}
    /\ LET e == Min(UnallocNodes)
           es == heap[CacheId].kids
           m == heap[CacheId].data
           full == Len(es) + 1 > m
           h1 == [heap EXCEPT ![CacheId] = BoxIncWeak(@)]
           h2 == [h1 EXCEPT ![e] = [NodeNew(k) EXCEPT !.parent = CacheId,
                                                      !.strong = IF full THEN 1 ELSE 2]]
       IN  /\ heap' = [h2 EXCEPT ![CacheId].kids = IF full THEN es ELSE Append(es, e)]
           /\ ext' = [ext EXCEPT ![e] = 1]
           /\ gLast' = GraphOp("insert", e, IF full THEN e ELSE 0, "some")
    /\ UNCHANGED outsideGraph

\* cache.insert(k, _): a new entry with a Weak to the cache; a clone of it
\* is pushed, the oldest entry is removed past max_size (its handle is
\* dropped), and the entry is returned
CacheInsert(k) ==
    /\ ext[CacheId] >= 1
    /\ UnallocNodes # {}
    /\ LET e == Min(UnallocNodes)
           es == heap[CacheId].kids
           m == heap[CacheId].data
           h1 == [heap EXCEPT ![CacheId] = BoxIncWeak(@)]
           h2 == [h1 EXCEPT ![e] = [NodeNew(k) EXCEPT !.parent = CacheId]]
           h3 == [h2 EXCEPT ![e] = BoxIncStrong(@)]
           h4 == [h3 EXCEPT ![CacheId].kids = EntriesAfterInsert(es, e, m)]
           x == Evicted(es, e, m)
       IN  /\ heap' = IF x = 0 THEN h4 ELSE HeapDropRc(h4, x)
           /\ ext' = [ext EXCEPT ![e] = 1]
           /\ gLast' = GraphOp("insert", e, x, "some")
    /\ UNCHANGED outsideGraph

\* entries.iter().find(|entry| entry.key == key): the first match (0: none)
Find(hp, k) ==
    LET es == hp[CacheId].kids
        hits == {i \in DOMAIN es : hp[es[i]].data = k}
    IN  IF hits = {} THEN 0 ELSE es[Min(hits)]

\* cache.get(k): the first entry with that key, cloned
CacheGet(k) ==
    /\ ext[CacheId] >= 1
    /\ LET e == Find(heap, k)
       IN  IF e # 0
           THEN /\ heap[e].strong < MaxStrong
                /\ heap' = [heap EXCEPT ![e] = BoxIncStrong(@)]
                /\ ext' = [ext EXCEPT ![e] = @ + 1]
                /\ gLast' = GraphOp("get", k, e, "some")
           ELSE /\ gLast' = GraphOp("get", k, 0, "none")
                /\ UNCHANGED <<heap, ext>>
    /\ UNCHANGED outsideGraph

\* cache.size()
CacheSize ==
    /\ ext[CacheId] >= 1
    /\ gLast' = GraphOp("size", CacheId, Len(heap[CacheId].kids), "some")
    /\ UNCHANGED <<heap, ext>>
    /\ UNCHANGED outsideGraph

\* entry.get_cache(): upgrade of the stored Weak; Some(rc) is a new local
\* handle to the cache
GetCache(e) ==
    /\ e \in EntryIds /\ ext[e] >= 1
    /\ IF LinkUpgrades(heap, heap[e].parent)
       THEN /\ heap[CacheId].strong < MaxStrong
            /\ heap' = [heap EXCEPT ![CacheId] = BoxIncStrong(@)]
            /\ ext' = [ext EXCEPT ![CacheId] = @ + 1]
            /\ gLast' = GraphOp("get_cache", e, CacheId, "some")
       ELSE /\ gLast' = GraphOp("get_cache", e, 0, "none")
            /\ UNCHANGED <<heap, ext>>
    /\ UNCHANGED outsideGraph

CacheNext ==
    \/ \E m \in MaxSizes : CacheNew(m)
    \/ \E k \in Keys : CacheInsert(k)
    \/ \E k \in Keys : CacheGet(k)
    \/ CacheSize
    \/ \E e \in EntryIds : GetCache(e)
    \/ \E o \in CacheNodeIds : NodeDrop(o)

\* nothing built yet: room for the cache and the entries of every insert
CacheInit ==
    /\ OtherInit
    /\ heap = [o \in CacheNodeIds |-> NoNode]
    /\ ext = [o \in CacheNodeIds |-> 0]
    /\ gLast = GraphOp("init", 0, 0, "none")

CacheSpec == CacheInit /\ [][CacheNext]_vars

\* --------------------------------------------- Arc<Mutex<i32>> and threads
\* one turn of the spawn loop: Arc::clone(&counter), thread::spawn(closure)
MainSpawn ==
    /\ arc.main = "spawn"
    /\ LET t == arc.spawned + 1
       IN  arc' = [arc EXCEPT !.strong = @ + 1,
                              !.tpc[t] = "ready",
                              !.spawned = t,
                              !.main = IF t = NumThreads THEN "join" ELSE "spawn"]
    /\ UNCHANGED outsideArc

\* mutant: lock() hands out the guard without waiting for the holder
M_ThreadLock_NoExclusion(t) ==
    /\ arc.tpc[t] = "ready"
    /\ arc' = [arc EXCEPT !.holder = t, !.tpc[t] = "locked"]
    /\ UNCHANGED outsideArc

\* counter_clone.lock().unwrap(): blocks while another thread holds the lock
ThreadLock(t) ==
    /\ arc.tpc[t] = "ready"
    /\ arc.holder = 0
    /\ arc' = [arc EXCEPT !.holder = t, !.tpc[t] = "locked"]
    /\ UNCHANGED outsideArc

\* *val += 1, the load
ThreadRead(t) ==
    /\ arc.tpc[t] = "locked"
    /\ arc' = [arc EXCEPT !.tmp[t] = arc.val, !.tpc[t] = "read"]
    /\ UNCHANGED outsideArc

\* *val += 1, the store
ThreadWrite(t) ==
    /\ arc.tpc[t] = "read"
    /\ arc' = [arc EXCEPT !.val = arc.tmp[t] + 1, !.tpc[t] = "written"]
    /\ UNCHANGED outsideArc

\* end of the closure: the MutexGuard is dropped
ThreadUnlock(t) ==
    /\ arc.tpc[t] = "written"
    /\ arc' = [arc EXCEPT !.holder = IF @ = t THEN 0 ELSE @,
                          !.tpc[t] = "unlocked"]
    /\ UNCHANGED outsideArc

\* the closure's captured counter_clone is dropped and the thread ends
ThreadExit(t) ==
    /\ arc.tpc[t] = "unlocked"
    /\ arc' = [arc EXCEPT !.strong = @ - 1, !.tpc[t] = "done"]
    /\ UNCHANGED outsideArc

\* handle.join().unwrap(), in the order the threads were spawned
MainJoin ==
    /\ arc.main = "join"
    /\ arc.tpc[arc.joined + 1] = "done"
    /\ arc' = [arc EXCEPT !.joined = @ + 1,
                          !.main = IF arc.joined + 1 = NumThreads
                                   THEN "check" ELSE "join"]
    /\ UNCHANGED outsideArc

\* assert_eq!(*counter.lock().unwrap(), 10): the value main sees
MainCheck ==
    /\ arc.main = "check"
    /\ arc.holder = 0
    /\ arc' = [arc EXCEPT !.seen = arc.val, !.main = "done"]
    /\ UNCHANGED outsideArc

ArcNext ==
    \/ MainSpawn
    \/ \E t \in ThreadIds : ThreadLock(t)
    \/ \E t \in ThreadIds : ThreadRead(t)
    \/ \E t \in ThreadIds : ThreadWrite(t)
    \/ \E t \in ThreadIds : ThreadUnlock(t)
    \/ \E t \in ThreadIds : ThreadExit(t)
    \/ MainJoin
    \/ MainCheck

ArcSpec == Init /\ [][ArcNext]_vars

\* ------------------------------------------------------------- LazyPtr
\* the data an initialiser returns or a caller stores
LazyValues == {1, 2, 3}

\* LazyPtr::new(init_fn): no data yet, the initialiser (returning v) stored
LazyNew(v) ==
    /\ lazy.pc = "none"
    /\ lazy' = [lazy EXCEPT !.pc = "run", !.initFn = TRUE, !.fn = v,
                            !.last = LazyOp("new", "ok", 0, FALSE)]
    /\ UNCHANGED outsideLazy

\* mutant: the initialiser is run on every call and never taken
M_EnsureInit_RunsAgain(l) ==
    IF l.initFn
    THEN [l EXCEPT !.some = TRUE, !.v = l.fn, !.calls = @ + 1]
    ELSE l

\* the first block of get: if data is None, take() the initialiser out of
\* init_fn and, if there was one, run it and store its result
EnsureInit(l) ==
    IF l.some
    THEN l
    ELSE IF l.initFn
         THEN [l EXCEPT !.initFn = FALSE, !.some = TRUE, !.v = l.fn,
                        !.calls = @ + 1]
         ELSE l

\* LazyPtr::get: data.borrow() panics under a live RefMut; unwrap() panics
\* on data that is still None; otherwise one more Ref on data is handed out
LazyGet ==
    /\ lazy.pc = "run"
    /\ lazy.flag < MaxGuards
    /\ LET l == EnsureInit(lazy)
           ran == l.calls # lazy.calls
       IN  IF lazy.flag = -1 \/ (ran /\ lazy.flag # 0)
           THEN lazy' = [lazy EXCEPT !.pc = "panicked",
                                     !.last = LazyOp("get", "panic", 0, FALSE)]
           ELSE IF ~l.some
                THEN lazy' = [l EXCEPT !.pc = "panicked",
                                       !.last = LazyOp("get", "panic", 0, ran)]
                ELSE lazy' = [l EXCEPT !.flag = @ + 1,
                                       !.last = LazyOp("get", "ok", l.v, ran)]
    /\ UNCHANGED outsideLazy

\* LazyPtr::get_mut: self.get() (its Ref dropped at the end of the
\* statement), then data.borrow_mut(), which panics under any live guard
LazyGetMut ==
    /\ lazy.pc = "run"
    /\ LET l == EnsureInit(lazy)
           ran == l.calls # lazy.calls
       IN  IF lazy.flag = -1 \/ (ran /\ lazy.flag # 0)
           THEN lazy' = [lazy EXCEPT !.pc = "panicked",
                                     !.last = LazyOp("get_mut", "panic", 0, FALSE)]
           ELSE IF ~l.some \/ l.flag # 0
                THEN lazy' = [l EXCEPT !.pc = "panicked",
                                       !.last = LazyOp("get_mut", "panic", 0, ran)]
                ELSE lazy' = [l EXCEPT !.flag = -1,
                                       !.last = LazyOp("get_mut", "ok", l.v, ran)]
    /\ UNCHANGED outsideLazy

\* a store through the RefMut<T> that get_mut returned
LazyWrite(v) ==
    /\ lazy.pc = "run"
    /\ lazy.flag = -1
    /\ lazy' = [lazy EXCEPT !.v = v, !.last = LazyOp("write", "ok", v, FALSE)]
    /\ UNCHANGED outsideLazy

\* a Ref<T> returned by get goes out of scope
LazyRefDrop ==
    /\ lazy.pc = "run"
    /\ lazy.flag > 0
    /\ lazy' = [lazy EXCEPT !.flag = @ - 1,
                            !.last = LazyOp("drop_ref", "ok", 0, FALSE)]
    /\ UNCHANGED outsideLazy

\* the RefMut<T> returned by get_mut goes out of scope
LazyRefMutDrop ==
    /\ lazy.pc = "run"
    /\ lazy.flag = -1
    /\ lazy' = [lazy EXCEPT !.flag = 0,
                            !.last = LazyOp("drop_ref_mut", "ok", 0, FALSE)]
    /\ UNCHANGED outsideLazy

LazyNext ==
    \/ \E v \in LazyValues : LazyNew(v)
    \/ LazyGet
    \/ LazyGetMut
    \/ \E v \in LazyValues : LazyWrite(v)
    \/ LazyRefDrop
    \/ LazyRefMutDrop

LazySpec == Init /\ [][LazyNext]_vars

\* ------------------------------------------------------------ SecurePtr
\* enum AccessLevel
AccessLevels == {"ReadOnly", "ReadWrite", "Admin"}

\* the data a SecurePtr is built with or a caller stores
SecureValues == {1, 2}

\* the handles built so far
SecureLive == {h \in SecureIds : sec.level[h] # "none"}

\* SecurePtr::new(data, access_level)
SecureNew(v, lvl) ==
    /\ sec.pc = "run"
    /\ SecureLive = {}
    /\ sec' = [sec EXCEPT !.level[1] = lvl, !.v = v,
                          !.last = SecureOp("new", 1, "ok", 1)]
    /\ UNCHANGED outsideSecure

\* h.clone_with_access(new_access): a new handle on the same data, with the
\* level the caller asks for
CloneWithAccess(h, lvl) ==
    /\ sec.pc = "run"
    /\ h \in SecureLive
    /\ SecureLive # SecureIds
    /\ LET n == CHOOSE x \in SecureIds \ SecureLive :
                    \A y \in SecureIds \ SecureLive : x <= y
       IN  sec' = [sec EXCEPT !.level[n] = lvl, !.from[n] = h,
                              !.last = SecureOp("clone_with_access", h, "ok", n)]
    /\ UNCHANGED outsideSecure

\* h.read(): data.borrow() at every level; it panics under a live RefMut
SecureRead(h) ==
    /\ sec.pc = "run"
    /\ h \in SecureLive
    /\ sec.flag < MaxGuards
    /\ IF sec.flag = -1
       THEN sec' = [sec EXCEPT !.pc = "panicked",
                               !.last = SecureOp("read", h, "panic", 0)]
       ELSE sec' = [sec EXCEPT !.flag = @ + 1,
                               !.last = SecureOp("read", h, "ok", sec.v)]
    /\ UNCHANGED outsideSecure

\* mutant: write hands out the RefMut without looking at the level
M_SecureWrite_NoCheck(h) ==
    /\ sec.pc = "run"
    /\ h \in SecureLive
    /\ IF sec.flag # 0
       THEN sec' = [sec EXCEPT !.pc = "panicked",
                               !.last = SecureOp("write", h, "panic", 0)]
       ELSE sec' = [sec EXCEPT !.flag = -1,
                               !.last = SecureOp("write", h, "ok", sec.v)]
    /\ UNCHANGED outsideSecure

\* h.write(): Err for ReadOnly; otherwise data.borrow_mut(), which panics
\* while any guard on the data is alive
SecureWrite(h) ==
    /\ sec.pc = "run"
    /\ h \in SecureLive
    /\ IF sec.level[h] = "ReadOnly"
       THEN sec' = [sec EXCEPT !.last = SecureOp("write", h, "err", 0)]
       ELSE IF sec.flag # 0
            THEN sec' = [sec EXCEPT !.pc = "panicked",
                                    !.last = SecureOp("write", h, "panic", 0)]
            ELSE sec' = [sec EXCEPT !.flag = -1,
                                    !.last = SecureOp("write", h, "ok", sec.v)]
    /\ UNCHANGED outsideSecure

\* h.admin_access(): Err unless Admin; otherwise data.borrow_mut()
AdminAccess(h) ==
    /\ sec.pc = "run"
    /\ h \in SecureLive
    /\ IF sec.level[h] # "Admin"
       THEN sec' = [sec EXCEPT !.last = SecureOp("admin_access", h, "err", 0)]
       ELSE IF sec.flag # 0
            THEN sec' = [sec EXCEPT !.pc = "panicked",
                                    !.last = SecureOp("admin_access", h, "panic", 0)]
            ELSE sec' = [sec EXCEPT !.flag = -1,
                                    !.last = SecureOp("admin_access", h, "ok", sec.v)]
    /\ UNCHANGED outsideSecure

\* *data = v through the RefMut<T> that write or admin_access returned
SecureStore(v) ==
    /\ sec.pc = "run"
    /\ sec.flag = -1
    /\ sec' = [sec EXCEPT !.v = v, !.last = SecureOp("store", 0, "ok", v)]
    /\ UNCHANGED outsideSecure

\* a Ref<T> returned by read goes out of scope
SecureRefDrop ==
    /\ sec.pc = "run"
    /\ sec.flag > 0
    /\ sec' = [sec EXCEPT !.flag = @ - 1,
                          !.last = SecureOp("drop_ref", 0, "ok", 0)]
    /\ UNCHANGED outsideSecure

\* the RefMut<T> returned by write or admin_access goes out of scope
SecureRefMutDrop ==
    /\ sec.pc = "run"
    /\ sec.flag = -1
    /\ sec' = [sec EXCEPT !.flag = 0,
                          !.last = SecureOp("drop_ref_mut", 0, "ok", 0)]
    /\ UNCHANGED outsideSecure

SecureNext ==
    \/ \E v \in SecureValues, lvl \in AccessLevels : SecureNew(v, lvl)
    \/ \E h \in SecureIds, lvl \in AccessLevels : CloneWithAccess(h, lvl)
    \/ \E h \in SecureIds : SecureRead(h)
    \/ \E h \in SecureIds : SecureWrite(h)
    \/ \E h \in SecureIds : AdminAccess(h)
    \/ \E v \in SecureValues : SecureStore(v)
    \/ SecureRefDrop
    \/ SecureRefMutDrop

SecureSpec == Init /\ [][SecureNext]_vars

\* ------------------------------------------------------------ CountedPtr
\* the handles alive
CountedLive == {h \in CountedIds : cnt.counter[h] # 0}

\* the handle the next CountedPtr built gets
CountedFresh ==
    CHOOSE x \in CountedIds \ CountedLive :
        \A y \in CountedIds \ CountedLive : x <= y

\* CountedPtr::new(data): a new data cell and a new counter holding 0
CountedNew ==
    /\ CountedLive = {}
    /\ cnt.derefs = 0
    /\ cnt' = [cnt EXCEPT !.counter[1] = 1, !.count[1] = 0,
                          !.last = CountedOp("new", 1, 0)]
    /\ UNCHANGED outsideCounted

\* mutant: the clone gets a counter of its own, starting at the present count
M_CountedClone_OwnCounter(h) ==
    /\ h \in CountedLive
    /\ CountedLive # CountedIds
    /\ LET n == CountedFresh
       IN  cnt' = [cnt EXCEPT !.counter[n] = n,
                              !.count[n] = cnt.count[cnt.counter[h]],
                              !.last = CountedOp("clone", h, n)]
    /\ UNCHANGED outsideCounted

\* h.clone(): Rc::clone of data and of access_count, so the new handle holds
\* the same counter
CountedClone(h) ==
    /\ h \in CountedLive
    /\ CountedLive # CountedIds
    /\ LET n == CountedFresh
       IN  cnt' = [cnt EXCEPT !.counter[n] = cnt.counter[h],
                              !.last = CountedOp("clone", h, n)]
    /\ UNCHANGED outsideCounted

\* Deref::deref(&h), as in h.borrow(): *access_count.borrow_mut() += 1
CountedDeref(h) ==
    /\ h \in CountedLive
    /\ cnt.derefs < MaxDerefs
    /\ cnt' = [cnt EXCEPT !.count[cnt.counter[h]] = @ + 1,
                          !.derefs = @ + 1,
                          !.last = CountedOp("deref", h, 0)]
    /\ UNCHANGED outsideCounted

\* h.access_count(): *access_count.borrow()
CountedAccessCount(h) ==
    /\ h \in CountedLive
    /\ cnt' = [cnt EXCEPT !.last = CountedOp("access_count", h,
                                             cnt.count[cnt.counter[h]])]
    /\ UNCHANGED outsideCounted

\* h.strong_count(): Rc::strong_count(&data), one per handle alive
CountedStrongCount(h) ==
    /\ h \in CountedLive
    /\ cnt' = [cnt EXCEPT !.last = CountedOp("strong_count", h,
                                             Cardinality(CountedLive))]
    /\ UNCHANGED outsideCounted

\* a clone goes out of scope while another handle stays
CountedDrop(h) ==
    /\ h \in CountedLive
    /\ CountedLive # {h}
    /\ cnt' = [cnt EXCEPT !.counter[h] = 0, !.last = CountedOp("drop", h, 0)]
    /\ UNCHANGED outsideCounted

CountedNext ==
    \/ CountedNew
    \/ \E h \in CountedIds : CountedClone(h)
    \/ \E h \in CountedIds : CountedDeref(h)
    \/ \E h \in CountedIds : CountedAccessCount(h)
    \/ \E h \in CountedIds : CountedStrongCount(h)
    \/ \E h \in CountedIds : CountedDrop(h)

CountedSpec == Init /\ [][CountedNext]_vars

\* ------------------------------------------- worker and the shared queue
\* queue.lock().unwrap(): blocks while another worker holds the lock
WorkerLock(w) ==
    /\ wq.wpc[w] = "loop"
    /\ wq.holder = 0
    /\ wq' = [wq EXCEPT !.holder = w, !.wpc[w] = "locked"]
    /\ UNCHANGED outsideQueue

\* the queue without its last element
Front(q) == SubSeq(q, 1, Len(q) - 1)

\* mutant: the worker reads the last task and leaves it in the queue
M_WorkerPop_LeavesTask(w) ==
    /\ wq.wpc[w] = "locked"
    /\ wq' = [wq EXCEPT !.task[w] = IF wq.queue = <<>> THEN 0
                                    ELSE wq.queue[Len(wq.queue)],
                        !.wpc[w] = "popped"]
    /\ UNCHANGED outsideQueue

\* q.pop(): the last task of the Vec, or None from an empty one
WorkerPop(w) ==
    /\ wq.wpc[w] = "locked"
    /\ wq' = [wq EXCEPT !.task[w] = IF wq.queue = <<>> THEN 0
                                    ELSE wq.queue[Len(wq.queue)],
                        !.queue = IF wq.queue = <<>> THEN <<>> ELSE Front(@),
                        !.wpc[w] = "popped"]
    /\ UNCHANGED outsideQueue

\* end of the block: the MutexGuard q is dropped
WorkerUnlock(w) ==
    /\ wq.wpc[w] = "popped"
    /\ wq' = [wq EXCEPT !.holder = IF @ = w THEN 0 ELSE @,
                        !.wpc[w] = "match"]
    /\ UNCHANGED outsideQueue

\* Some(task): the task is processed and the loop goes round
WorkerProcess(w) ==
    /\ wq.wpc[w] = "match"
    /\ wq.task[w] # 0
    /\ wq.done[wq.task[w]] < NumTasks      \* cap of the history counter
    /\ wq' = [wq EXCEPT !.done[wq.task[w]] = @ + 1,
                        !.by[wq.task[w]] = w,
                        !.task[w] = 0,
                        !.wpc[w] = "loop"]
    /\ UNCHANGED outsideQueue

\* None: break; the worker returns and its clone of the Arc is dropped
WorkerExit(w) ==
    /\ wq.wpc[w] = "match"
    /\ wq.task[w] = 0
    /\ wq' = [wq EXCEPT !.wpc[w] = "exited", !.strong = @ - 1]
    /\ UNCHANGED outsideQueue

\* the steps of worker w
WorkerStep(w) ==
    \/ WorkerLock(w)
    \/ WorkerPop(w)
    \/ WorkerUnlock(w)
    \/ WorkerProcess(w)
    \/ WorkerExit(w)

QueueNext ==
    \/ \E w \in WorkerIds : WorkerLock(w)
    \/ \E w \in WorkerIds : WorkerPop(w)
    \/ \E w \in WorkerIds : WorkerUnlock(w)
    \/ \E w \in WorkerIds : WorkerProcess(w)
    \/ \E w \in WorkerIds : WorkerExit(w)

\* every worker is a thread the scheduler keeps running: a step it can take
\* for ever is taken
QueueSpec ==
    /\ Init
    /\ [][QueueNext]_vars
    /\ \A w \in WorkerIds : WF_vars(WorkerStep(w))

\* ======================================================================
\* Properties
\* ======================================================================

\* C1: in every reachable state the value of an allocation is valid iff
\* strong_count > 0, and the block exists iff strong_count + weak_count > 0.
C1_ValueAndBlockLifetime ==
    \A a \in AllocIds :
        /\ (box[a].slot = "valid") <=> (AllocStrongCount(a) > 0)
        /\ (box[a].block = "live")
               <=> (AllocStrongCount(a) + AllocWeakCount(a) > 0)

\* C1 witness: a block kept alive by two Weak handles after try_unwrap took
\* the value out
W1_BlockOutlivesValue ==
    \E a \in AllocIds :
        /\ box[a].block = "live"
        /\ box[a].slot = "moved"
        /\ AllocStrongCount(a) = 0
        /\ AllocWeakCount(a) = 2

\* C2: per RefCell, at most one RefMut guard is alive, and while one is alive
\* no Ref guard is alive.
C2_ExclusiveExcludesAll ==
    \A c \in CellIds :
        /\ Cardinality(MutGuards(c)) <= 1
        /\ MutGuards(c) # {} => RefGuards(c) = {}

\* C2 witness: a RefMut is alive and a further borrow of the same cell has
\* just been refused
W2_ConflictRefused ==
    \E c \in CellIds :
        /\ MutGuards(c) # {}
        /\ cellLast.cell = c
        /\ cellLast.res = "err"

\* C3: the value is destroyed exactly once, by the drop of the last Rc
\* (strong 1 -> 0): no other step destroys it, that step always does, and the
\* destructor never runs a second time.
C3_DestroyedExactlyOnce ==
    [][\A a \in AllocIds :
          LET lastDrop == /\ last'.op = "drop"
                          /\ last'.a = a
                          /\ box[a].strong = 1
          IN  /\ box'[a].drops <= 1
              /\ (box'[a].drops # box[a].drops) <=> lastDrop
              /\ lastDrop => /\ box'[a].drops = 1
                             /\ box'[a].strong = 0
                             /\ box[a].slot = "valid"
                             /\ box'[a].slot = "dropped"
      ]_vars

\* C3 witness: the last Rc has just been dropped and the destructor has run
W3_LastDropDestroyed ==
    /\ last.op = "drop"
    /\ last.a \in AllocIds
    /\ box[last.a].strong = 0
    /\ box[last.a].drops = 1

\* C4: the handle returned by Rc::new(v) reports strong_count 1 and
\* weak_count 0, for every v.
C4_NewCounts ==
    last.op = "new" =>
        /\ last.ret \in DOMAIN rc
        /\ rc[last.ret] = last.a
        /\ strong_count(last.ret) = 1
        /\ weak_count(last.ret) = 0
        /\ box[last.a].slot = "valid"
        /\ box[last.a].data \in Values

\* C4 witness: Rc::new(100) has just returned
W4_NewReturned ==
    /\ last.op = "new"
    /\ box[last.a].data = 100

\* C5: Rc::clone always succeeds, adds exactly 1 to strong_count, leaves
\* weak_count alone and returns a handle to the same allocation, so both
\* handles report the same incremented count.
C5_CloneIncrementsStrong ==
    [][/\ \A h \in DOMAIN rc : FreeRc # {} => ENABLED RcClone(h)
       /\ last'.op = "clone" =>
          LET h == last'.h
              h2 == last'.ret
              a == last'.a
          IN  /\ last'.res = "some"
              /\ h \in DOMAIN rc
              /\ h2 \notin DOMAIN rc
              /\ a = rc[h]
              /\ rc'[h] = a
              /\ rc'[h2] = a
              /\ box'[a].strong = box[a].strong + 1
              /\ box'[a].weak = box[a].weak
              /\ StrongCountOf(box', rc', h) = strong_count(h) + 1
              /\ StrongCountOf(box', rc', h2) = StrongCountOf(box', rc', h)
              /\ WeakCountOf(box', rc', h) = weak_count(h)
      ]_vars

\* C5 witness: a second clone has just been made (three handles, count 3)
W5_SecondClone ==
    /\ last.op = "clone"
    /\ strong_count(last.h) = 3
    /\ strong_count(last.ret) = 3

\* C6: dropping an Rc takes exactly 1 from strong_count; at 0 the value is
\* destroyed; the block is freed by that drop only if weak_count is 0 too, and
\* otherwise it stays (value gone) until the last Weak is dropped.
C6_StrongDrop ==
    [][/\ last'.op = "drop" =>
              LET a == last'.a
              IN  /\ last'.h \in DOMAIN rc
                  /\ last'.h \notin DOMAIN rc'
                  /\ a = rc[last'.h]
                  /\ box'[a].strong = box[a].strong - 1
                  /\ BoxWeakCount(box'[a]) = AllocWeakCount(a)
                  /\ box'[a].strong = 0 => box'[a].slot = "dropped"
                  /\ box'[a].strong > 0 => /\ box'[a].slot = "valid"
                                           /\ box'[a].block = "live"
                  /\ (box'[a].block = "freed")
                         <=> (box'[a].strong = 0 /\ AllocWeakCount(a) = 0)
       /\ \A a \in AllocIds :
              (box[a].block = "live" /\ box[a].strong = 0) =>
                  /\ box'[a].slot = box[a].slot
                  /\ (box'[a].block # "live")
                         <=> /\ last'.op = "weak_drop"
                             /\ last'.a = a
                             /\ AllocWeakCount(a) = 1
                             /\ box'[a].block = "freed"
      ]_vars

\* C6 witness: the last Rc has just been dropped while a Weak remains: the
\* value is gone and the block is still there
W6_BlockSurvivesLastDrop ==
    /\ last.op = "drop"
    /\ last.a \in AllocIds
    /\ box[last.a].strong = 0
    /\ box[last.a].slot = "dropped"
    /\ box[last.a].block = "live"
    /\ AllocWeakCount(last.a) = 1

\* C7: Rc::downgrade adds exactly 1 to weak_count and leaves strong_count and
\* the value unchanged.
C7_DowngradeFrame ==
    [][last'.op = "downgrade" =>
          LET h == last'.h
              w == last'.ret
              a == last'.a
          IN  /\ h \in DOMAIN rc
              /\ a = rc[h]
              /\ w \notin DOMAIN wk
              /\ wk'[w] = a
              /\ rc' = rc
              /\ WeakCountOf(box', rc', h) = weak_count(h) + 1
              /\ StrongCountOf(box', rc', h) = strong_count(h)
              /\ box'[a] = [box[a] EXCEPT !.weak = @ + 1]
      ]_vars

\* C7 witness: a second Weak has just been made from a live Rc
W7_SecondDowngrade ==
    /\ last.op = "downgrade"
    /\ last.h \in DOMAIN rc
    /\ weak_count(last.h) = 2

\* C8: Weak::upgrade returns an Rc to the same allocation and adds exactly 1
\* to strong_count iff strong_count > 0 at the call; otherwise it returns
\* nothing (and changes nothing).
C8_UpgradeIffStrong ==
    [][last'.op = "upgrade" =>
          LET w == last'.h
              alive == w \in DOMAIN wk /\ AllocStrongCount(wk[w]) > 0
          IN  /\ (last'.res = "some") <=> alive
              /\ (last'.res = "none") <=> ~alive
              /\ alive => LET a == wk[w]
                              h == last'.ret
                          IN  /\ h \notin DOMAIN rc
                              /\ rc'[h] = a
                              /\ box'[a] = [box[a] EXCEPT !.strong = @ + 1]
              /\ ~alive => (box' = box /\ rc' = rc)
              /\ wk' = wk
      ]_vars

\* C8 witness: an upgrade has just succeeded next to the original Rc
W8_UpgradeSucceeded ==
    /\ last.op = "upgrade"
    /\ last.res = "some"
    /\ last.ret \in DOMAIN rc
    /\ strong_count(last.ret) = 2

\* C9: once the strong count of an allocation that has Weak handles is 0, it
\* stays 0 and every upgrade of any of those handles returns nothing.
C9_UpgradeAfterLastDrop ==
    [][\A w \in DOMAIN wk :
          AllocStrongCount(wk[w]) = 0 =>
              /\ BoxStrongCount(box'[wk[w]]) = 0
              /\ (last'.op = "upgrade" /\ last'.h = w) =>
                     (last'.res = "none" /\ rc' = rc)
      ]_vars

\* C9 witness: downgrade, all Rc dropped (destructor ran), then an upgrade
\* that returned nothing
W9_UpgradeOfDeadReturnedNone ==
    /\ last.op = "upgrade"
    /\ last.res = "none"
    /\ last.a \in AllocIds
    /\ box[last.a].drops = 1
    /\ rc = <<>>

\* C10: dropping a Weak takes exactly 1 from weak_count, never touches
\* strong_count or the value, and frees the block exactly when both counts
\* are 0 afterwards.
C10_WeakDrop ==
    [][last'.op = "weak_drop" =>
          LET w == last'.h
          IN  IF w \in DOMAIN wk
              THEN LET a == wk[w]
                   IN  /\ w \notin DOMAIN wk'
                       /\ BoxWeakCount(box'[a]) = AllocWeakCount(a) - 1
                       /\ box'[a].strong = box[a].strong
                       /\ box'[a].slot = box[a].slot
                       /\ box'[a].data = box[a].data
                       /\ box'[a].drops = box[a].drops
                       /\ (box'[a].block = "freed")
                              <=> /\ BoxWeakCount(box'[a]) = 0
                                  /\ BoxStrongCount(box'[a]) = 0
                       /\ box'[a].block # "freed" => box'[a].block = "live"
              ELSE box' = box
      ]_vars

\* C10 witness: the last Weak of a dead allocation has just been dropped and
\* the block is freed
W10_LastWeakDropFrees ==
    /\ last.op = "weak_drop"
    /\ last.a \in AllocIds
    /\ box[last.a].block = "freed"
    /\ box[last.a].drops = 1

\* C11: Rc::try_unwrap succeeds and returns the owned value iff
\* strong_count == 1; with strong_count >= 2 it fails, returns the original
\* handle and leaves strong_count, weak_count and the value unchanged.
C11_TryUnwrapIffSoleOwner ==
    [][last'.op = "try_unwrap" =>
          LET h == last'.h
              a == last'.a
          IN  /\ h \in DOMAIN rc
              /\ a = rc[h]
              /\ (last'.res = "ok") <=> (strong_count(h) = 1)
              /\ (last'.res = "err") <=> (strong_count(h) >= 2)
              /\ last'.res = "ok" =>
                     /\ last'.ret = box[a].data
                     /\ box[a].slot = "valid"
                     /\ box'[a].slot = "moved"
                     /\ box'[a].drops = box[a].drops
                     /\ h \notin DOMAIN rc'
              /\ last'.res = "err" =>
                     /\ last'.ret = h
                     /\ rc' = rc
                     /\ StrongCountOf(box', rc', h) = strong_count(h)
                     /\ WeakCountOf(box', rc', h) = weak_count(h)
                     /\ box'[a] = box[a]
      ]_vars

\* C11 witness: try_unwrap has just failed on one of two handles, which
\* still report strong_count 2
W11_TryUnwrapRefused ==
    /\ last.op = "try_unwrap"
    /\ last.res = "err"
    /\ last.ret \in DOMAIN rc
    /\ strong_count(last.ret) = 2

\* C12: Rc::get_mut gives mutable access iff strong_count == 1 and
\* weak_count == 0, nothing otherwise, and never changes a count.  When it
\* gives access no other handle, strong or weak, refers to the allocation.
C12_GetMutIffUnique ==
    [][last'.op = "get_mut" =>
          LET h == last'.h
              a == last'.a
          IN  /\ h \in DOMAIN rc
              /\ a = rc[h]
              /\ (last'.res = "some")
                     <=> (strong_count(h) = 1 /\ weak_count(h) = 0)
              /\ (last'.res = "none")
                     <=> ~(strong_count(h) = 1 /\ weak_count(h) = 0)
              /\ last'.res = "some" =>
                     /\ \A g \in DOMAIN rc : rc[g] = a => g = h
                     /\ \A w \in DOMAIN wk : wk[w] # a
              /\ box' = box
              /\ rc' = rc
              /\ wk' = wk
      ]_vars

\* C12 witness: get_mut has just been refused to a sole strong owner because
\* a Weak handle exists
W12_GetMutRefusedUnderWeak ==
    /\ last.op = "get_mut"
    /\ last.res = "none"
    /\ last.h \in DOMAIN rc
    /\ strong_count(last.h) = 1
    /\ weak_count(last.h) = 1

\* C13: a Weak made by Weak::new() points at no allocation, stays that way
\* until it is dropped, and its upgrade returns nothing in every state,
\* whatever allocations and handles exist.
C13_EmptyWeakNeverUpgrades ==
    [][/\ last'.op = "weak_new" =>
              /\ last'.ret \in emptyWk'
              /\ last'.ret \notin DOMAIN wk'
              /\ box' = box
              /\ rc' = rc
       /\ \A w \in emptyWk :
              /\ w \notin DOMAIN wk'
              /\ (last'.op = "upgrade" /\ last'.h = w) =>
                     /\ last'.res = "none"
                     /\ box' = box
                     /\ rc' = rc
      ]_vars

\* C13 witness: an empty Weak has just failed to upgrade while an
\* allocation with a strong handle and a real Weak exists
W13_EmptyUpgradeBesideLiveAlloc ==
    /\ last.op = "upgrade"
    /\ last.h \in emptyWk
    /\ last.res = "none"
    /\ rc # <<>>
    /\ wk # <<>>

\* C14: borrow / try_borrow succeeds exactly from Unborrowed (to Shared(1))
\* and from Shared(n) (to Shared(n+1)), and is rejected exactly from
\* Exclusive; so two shared borrows held together both succeed.
C14_SharedBorrow ==
    [][cellLast'.op \in {"borrow", "try_borrow"} =>
          LET c == cellLast'.cell
              f == borrowFlag[c]
          IN  /\ (cellLast'.res = "ok") <=> (f >= 0)
              /\ (cellLast'.res # "ok") <=> (f < 0 /\ MutGuards(c) # {})
              /\ cellLast'.res \in
                     (IF cellLast'.op = "borrow" THEN {"ok", "panic"}
                                                 ELSE {"ok", "err"})
              /\ cellLast'.res = "ok" =>
                     /\ borrowFlag' = [borrowFlag EXCEPT ![c] = f + 1]
                     /\ guards' = Append(guards, Guard(c, "ref"))
      ]_vars

\* C14 witness: a second shared borrow of one cell has just succeeded
W14_TwoReaders ==
    \E c \in CellIds :
        /\ cellLast.op \in {"borrow", "try_borrow"}
        /\ cellLast.cell = c
        /\ cellLast.res = "ok"
        /\ borrowFlag[c] = 2
        /\ Cardinality(RefGuards(c)) = 2

\* C15: borrow_mut / try_borrow_mut succeeds exactly from Unborrowed (to
\* Exclusive) and is rejected from Shared(n), n >= 1, and from Exclusive.
C15_ExclusiveBorrow ==
    [][cellLast'.op \in {"borrow_mut", "try_borrow_mut"} =>
          LET c == cellLast'.cell
              f == borrowFlag[c]
          IN  /\ (cellLast'.res = "ok") <=> (f = 0)
              /\ (cellLast'.res # "ok")
                     <=> (RefGuards(c) # {} \/ MutGuards(c) # {})
              /\ cellLast'.res \in
                     (IF cellLast'.op = "borrow_mut" THEN {"ok", "panic"}
                                                     ELSE {"ok", "err"})
              /\ cellLast'.res = "ok" =>
                     /\ borrowFlag' = [borrowFlag EXCEPT ![c] = -1]
                     /\ guards' = Append(guards, Guard(c, "mut"))
      ]_vars

\* C15 witness: try_borrow_mut has just been rejected while one Ref is alive
W15_ExclusiveRefusedUnderShared ==
    \E c \in CellIds :
        /\ cellLast.op = "try_borrow_mut"
        /\ cellLast.cell = c
        /\ cellLast.res = "err"
        /\ borrowFlag[c] = 1

\* C16: releasing a Ref takes Shared(n) to Shared(n-1), or to Unborrowed
\* when n = 1; releasing a RefMut takes Exclusive to Unborrowed; a release
\* changes nothing else (other cells, the values).
C16_Release ==
    [][cellLast'.op \in {"ref_drop", "refmut_drop", "unwind_drop"} =>
          LET c == cellLast'.cell
              f == borrowFlag[c]
              shared == f >= 1 /\ borrowFlag'[c] = f - 1
              exclusive == f = -1 /\ borrowFlag'[c] = 0
          IN  /\ cellLast'.op = "ref_drop" => shared
              /\ cellLast'.op = "refmut_drop" => exclusive
              /\ cellLast'.op = "unwind_drop" =>
                     IF guards[Len(guards)].kind = "ref"
                     THEN shared ELSE exclusive
              /\ \A d \in CellIds \ {c} : borrowFlag'[d] = borrowFlag[d]
              /\ cellValue' = cellValue
              /\ Len(guards') = Len(guards) - 1
      ]_vars

\* C16 witness: one of two Ref guards of a cell has just been released
\* (Shared(2) to Shared(1))
W16_OneOfTwoReleased ==
    \E c \in CellIds :
        /\ cellLast.op = "ref_drop"
        /\ cellLast.cell = c
        /\ borrowFlag[c] = 1
        /\ Cardinality(RefGuards(c)) = 1

\* a step that releases one outstanding guard
ReleaseOne ==
    \/ \E i \in 1..MaxGuards : RefDrop(i)
    \/ \E i \in 1..MaxGuards : RefMutDrop(i)
    \/ (Unwind /\ Len(guards') < Len(guards))

\* try_borrow_mut on cell c, succeeding
TryBorrowMutOk(c) == CellTryBorrowMut(c) /\ cellLast'.res = "ok"

\* C17: the cell is never wedged.  In every reachable state a cell without
\* outstanding guards is Unborrowed and try_borrow_mut on it succeeds, and
\* while guards are outstanding one of them can be released (a propagating
\* panic can always go on unwinding); so whatever borrows succeeded or failed
\* before, releasing the outstanding guards brings the cell back.
C17_NeverWedged ==
    /\ \A c \in CellIds :
           (RefGuards(c) = {} /\ MutGuards(c) = {}) =>
               /\ borrowFlag[c] = 0
               /\ (cellPc = "run" /\ Len(guards) < MaxGuards)
                      => ENABLED TryBorrowMutOk(c)
    /\ guards # <<>> => ENABLED ReleaseOne
    /\ cellPc = "unwinding" => ENABLED Unwind

\* C17 witness: the last outstanding guard of a cell has just been released
\* after a RefMut had been held, and try_borrow_mut can succeed again
W17_RecoveredAfterRelease ==
    \E c \in CellIds :
        /\ cellLast.op = "refmut_drop"
        /\ cellLast.cell = c
        /\ RefGuards(c) = {}
        /\ MutGuards(c) = {}
        /\ guards # <<>>
        /\ ENABLED TryBorrowMutOk(c)

\* ------------------------------------------------------- both kernels
\* Rc/Weak and RefCell share no variable, so a run that interleaves them
\* projects onto a run of each: it is enough to let a run use one of them.
KernelNext ==
    \/ \E v \in Values : CellInit /\ RcNew(v)
    \/ \E h \in RcIds : CellInit /\ RcClone(h)
    \/ \E h \in RcIds : CellInit /\ RcDrop(h)
    \/ \E h \in RcIds : CellInit /\ RcDowngrade(h)
    \/ CellInit /\ WeakNew
    \/ \E w \in WeakIds : CellInit /\ WeakUpgrade(w)
    \/ \E w \in WeakIds : CellInit /\ WeakDrop(w)
    \/ \E h \in RcIds : CellInit /\ RcTryUnwrap(h)
    \/ \E h \in RcIds : CellInit /\ RcGetMut(h)
    \/ \E h \in RcIds : CellInit /\ RcStrongCount(h)
    \/ \E h \in RcIds : CellInit /\ RcWeakCount(h)
    \/ \E c \in CellIds : RcInit /\ CellTryBorrow(c)
    \/ \E c \in CellIds : RcInit /\ CellTryBorrowMut(c)
    \/ \E c \in CellIds : RcInit /\ CellBorrow(c)
    \/ \E c \in CellIds : RcInit /\ CellBorrowMut(c)
    \/ \E i \in 1..MaxGuards, v \in Values : RcInit /\ RefMutWrite(i, v)
    \/ \E i \in 1..MaxGuards : RcInit /\ RefDrop(i)
    \/ \E i \in 1..MaxGuards : RcInit /\ RefMutDrop(i)
    \/ RcInit /\ Unwind

KernelSpec == Init /\ [][KernelNext]_vars

\* C18: every operation that fails (try_borrow / try_borrow_mut returning
\* an error, upgrade returning nothing, try_unwrap returning the handle,
\* get_mut returning nothing) leaves the borrow flags, the guards, both
\* counts, the handles and the values exactly as they were.
C18_FailureChangesNothing ==
    [][/\ (cellLast'.op \in {"try_borrow", "try_borrow_mut"}
              /\ cellLast'.res = "err") =>
              UNCHANGED <<borrowFlag, cellValue, guards, cellPc>>
       /\ (last'.op = "upgrade" /\ last'.res = "none") =>
              UNCHANGED <<box, rc, wk, emptyWk>>
       /\ (last'.op = "try_unwrap" /\ last'.res = "err") =>
              /\ UNCHANGED <<box, rc, wk, emptyWk>>
              /\ last'.ret = last'.h
              /\ last'.h \in DOMAIN rc'
       /\ (last'.op = "get_mut" /\ last'.res = "none") =>
              UNCHANGED <<box, rc, wk, emptyWk>>
      ]_vars

\* C18 witness: try_borrow has just failed on a cell whose RefMut holder had
\* written 100; the flag, the guard and the value are still there
W18_FailedBorrowKeptState ==
    \E c \in CellIds :
        /\ cellLast.op = "try_borrow"
        /\ cellLast.cell = c
        /\ cellLast.res = "err"
        /\ borrowFlag[c] = -1
        /\ MutGuards(c) # {}
        /\ cellValue[c] = 100

\* the four borrow operations, each with the answer it gives
TryBorrowErr(c) == CellTryBorrow(c) /\ cellLast'.res = "err"
TryBorrowMutErr(c) == CellTryBorrowMut(c) /\ cellLast'.res = "err"
BorrowPanics(c) == CellBorrow(c) /\ cellLast'.res = "panic"
BorrowMutPanics(c) == CellBorrowMut(c) /\ cellLast'.res = "panic"

\* C19: borrow and borrow_mut panic on exactly the states in which try_borrow
\* and try_borrow_mut return an error; the panicking call itself changes no
\* flag, guard or value; the guards alive at the panic are released one by
\* one while it propagates, and when it has propagated every cell is unused.
C19_PanicOnConflictThenReleased ==
    [][/\ \A c \in CellIds :
              (cellLast'.op = "borrow" /\ cellLast'.cell = c) =>
                  /\ cellLast'.res \in {"ok", "panic"}
                  /\ (cellLast'.res = "panic") <=> ENABLED TryBorrowErr(c)
       /\ \A c \in CellIds :
              (cellLast'.op = "borrow_mut" /\ cellLast'.cell = c) =>
                  /\ cellLast'.res \in {"ok", "panic"}
                  /\ (cellLast'.res = "panic") <=> ENABLED TryBorrowMutErr(c)
       /\ cellLast'.res = "panic" =>
              /\ cellPc = "run" /\ cellPc' = "unwinding"
              /\ UNCHANGED <<borrowFlag, guards, cellValue>>
       /\ cellLast'.op = "unwind_drop" =>
              /\ cellPc = "unwinding" /\ cellPc' = "unwinding"
              /\ guards' = SubSeq(guards, 1, Len(guards) - 1)
              /\ borrowFlag' = FlagsAfterRelease(guards[Len(guards)])
       /\ cellLast'.op = "unwound" =>
              /\ cellPc = "unwinding" /\ cellPc' = "run"
              /\ guards' = <<>>
              /\ \A c \in CellIds : borrowFlag'[c] = 0
       /\ cellPc = "unwinding" => ENABLED Unwind
      ]_vars

\* C19 witness: a panic is propagating and has just released the last of the
\* guards that were alive when it was raised; every cell is unused again
W19_UnwindReleasedLastGuard ==
    /\ cellPc = "unwinding"
    /\ cellLast.op = "unwind_drop"
    /\ guards = <<>>
    /\ \A c \in CellIds : borrowFlag[c] = 0

\* C20: no borrow request is ever pending.  While the thread runs, each of
\* the four operations can be taken on every cell and answers in that step:
\* in a conflicting state with an error or a panic, otherwise with a guard.
C20_NeverWaits ==
    /\ cellPc \in {"run", "unwinding"}
    /\ cellLast.res \in {"ok", "err", "panic"}
    /\ cellPc = "run" =>
           \A c \in CellIds :
               /\ ~CanBorrow(borrowFlag[c]) =>
                      ENABLED TryBorrowErr(c) /\ ENABLED BorrowPanics(c)
               /\ ~CanBorrowMut(borrowFlag[c]) =>
                      ENABLED TryBorrowMutErr(c) /\ ENABLED BorrowMutPanics(c)
               /\ Len(guards) < MaxGuards =>
                      /\ ENABLED CellTryBorrow(c)
                      /\ ENABLED CellTryBorrowMut(c)
                      /\ ENABLED CellBorrow(c)
                      /\ ENABLED CellBorrowMut(c)

\* C20 witness: with as many guards alive as the bound allows, a
\* try_borrow_mut on a borrowed cell has been answered at once with an error
W20_RefusedAtOnce ==
    \E c \in CellIds :
        /\ Len(guards) = MaxGuards
        /\ cellPc = "run"
        /\ cellLast = CellOp("try_borrow_mut", c, "err")
        /\ borrowFlag[c] # 0

\* C21: strong_count and weak_count are pure observers: the call returns the
\* count and changes neither count, nor the value, nor a handle, nor any
\* borrow state.
C21_CountsArePureObservers ==
    [][last'.op \in {"strong_count", "weak_count"} =>
           /\ UNCHANGED <<box, rc, wk, emptyWk>>
           /\ UNCHANGED cellVars
           /\ last'.ret = IF last'.op = "strong_count"
                          THEN StrongCountOf(box, rc, last'.h)
                          ELSE WeakCountOf(box, rc, last'.h)
      ]_vars

\* C21 witness: weak_count has just been read as 1 on an allocation that two
\* Rc handles share
W21_CountReadOnSharedAlloc ==
    /\ last.op = "weak_count"
    /\ last.ret = 1
    /\ last.h \in DOMAIN rc
    /\ strong_count(last.h) = 2
    /\ weak_count(last.h) = 1

\* C22 as stated: strong_count reaches 1 after 99 drops and the value
\* is destroyed by the 100th drop, which is the final one.
C22_AsStated ==
    last.op = "drop" =>
        /\ DropsDone = NumCopies - 1 => BoxStrongCount(box[1]) = 1
        /\ DropsDone < NumCopies => box[1].slot = "valid"
        /\ DropsDone = NumCopies => box[1].slot = "dropped" /\ rc = <<>>

\* C22 amended: the 100 clones and large_data are 101 handles.  Every drop
\* lowers strong_count by exactly 1; it is 1 after 100 drops, the value is
\* still valid then, and the destructor runs once, at the 101st (final) drop.
C22_CountsDownToFinalDrop ==
    [][last'.op = "drop" =>
           /\ BoxStrongCount(box'[1]) = BoxStrongCount(box[1]) - 1
           /\ BoxStrongCount(box'[1]) = Cardinality(DOMAIN rc')
           /\ (Cardinality(DOMAIN rc') = 1) => BoxStrongCount(box'[1]) = 1
           /\ (box'[1].slot = "valid") <=> (Cardinality(DOMAIN rc') > 0)
           /\ (box'[1].slot = "dropped") <=> (Cardinality(DOMAIN rc') = 0)
           /\ box'[1].drops = IF Cardinality(DOMAIN rc') = 0 THEN 1 ELSE 0
      ]_vars

\* C22 witness: 100 of the 101 handles have been dropped, the count is 1 and
\* the value is still there
W22_OneHandleLeftAfterHundredDrops ==
    /\ last.op = "drop"
    /\ DropsDone = NumCopies
    /\ DOMAIN rc = {1}
    /\ BoxStrongCount(box[1]) = 1
    /\ box[1].slot = "valid"

\* ------------------------------------------------------------ TreeNode
\* how many handles to c the children of p hold
Occurrences(s, c) == Cardinality({i \in DOMAIN s : s[i] = c})

\* the structs a step destroys
DestroyedNodes(hp, hq) ==
    {x \in DOMAIN hp : hp[x].slot = "valid" /\ hq[x].slot = "dropped"}

\* how many handles to c the children of the structs in D hold together
RECURSIVE HandlesHeld(_, _, _)
HandlesHeld(hp, D, c) ==
    IF D = {} THEN 0
    ELSE LET d == CHOOSE x \in D : TRUE
         IN  Occurrences(hp[d].kids, c) + HandlesHeld(hp, D \ {d}, c)

\* parent p and child c as add_child(&p, c.clone()) leaves them, the caller
\* holding the only handle to p and a handle to c
ParentAndChild(p, c) ==
    /\ p # c
    /\ heap[c].parent = p
    /\ Occurrences(heap[p].kids, c) >= 1
    /\ heap[p].strong = 1 /\ ext[p] = 1
    /\ heap[c].slot = "valid" /\ ext[c] >= 1

\* C23 as stated: dropping the only handle to P destroys P, the upgrade of
\* C's stored Weak then gives nothing, C stays valid and its strong count
\* is what it was.
C23_AsStated ==
    [][\A p, c \in NodeIds :
           (ParentAndChild(p, c) /\ gLast'.op = "drop" /\ gLast'.a = p) =>
               /\ heap'[p].slot = "dropped"
               /\ ~LinkUpgrades(heap', heap'[c].parent)
               /\ heap'[c].slot = "valid"
               /\ heap'[c].strong = heap[c].strong
      ]_vars

\* C23 amended: dropping the only handle to P destroys P (once) and with it
\* the handles P.children held, so C stays valid through the caller's handle
\* while its strong count goes down by the handles held by the children of
\* P and of the nodes destroyed with P (by 1 for one add_child); C's stored
\* Weak still names P and its upgrade gives nothing,
\* now and ever after, and a failed get_parent changes nothing.
C23_ParentDroppedChildKept ==
    [][/\ \A p, c \in NodeIds :
              (ParentAndChild(p, c)
                   /\ gLast'.op = "drop" /\ gLast'.a = p) =>
                  /\ heap'[p].slot = "dropped"
                  /\ heap'[p].strong = 0
                  /\ heap'[p].drops = 1
                  /\ heap'[c].parent = p
                  /\ ~LinkUpgrades(heap', heap'[c].parent)
                  /\ heap'[c].slot = "valid"
                  /\ p \in DestroyedNodes(heap, heap')
                  /\ heap'[c].strong
                         = heap[c].strong
                             - HandlesHeld(heap, DestroyedNodes(heap, heap'), c)
                  /\ heap'[c].strong < heap[c].strong
                  /\ heap'[c].strong >= 1
                  /\ ext'[c] = ext[c]
       /\ \A p \in NodeIds :
              heap[p].slot = "dropped" =>
                  heap'[p].slot = "dropped" /\ heap'[p].strong = 0
       /\ (gLast'.op = "get_parent" /\ gLast'.res = "none") =>
              UNCHANGED <<heap, ext>>
       /\ \A c \in NodeIds :
              (gLast'.op = "get_parent" /\ gLast'.a = c
                   /\ heap[c].parent # 0
                   /\ heap[heap[c].parent].slot = "dropped") =>
                  gLast'.res = "none"
      ]_vars

\* C23 witness: P has been destroyed, C is valid with the caller's handle as
\* its only one, and get_parent on C has just returned nothing
W23_GetParentOfOrphan ==
    \E c \in NodeIds :
        /\ gLast.op = "get_parent" /\ gLast.a = c /\ gLast.res = "none"
        /\ gLast.b # 0 /\ gLast.b # c
        /\ heap[gLast.b].slot = "dropped"
        /\ heap[c].slot = "valid"
        /\ heap[c].strong = 1 /\ ext[c] = 1

\* the structs the children of o hold handles to, and all below them
KidSet(o) == {heap[o].kids[i] : i \in DOMAIN heap[o].kids}

RECURSIVE Below(_, _)
Below(S, n) ==
    IF n = 0 THEN S ELSE Below(S \cup UNION {KidSet(x) : x \in S}, n - 1)

Descendants(o) == Below(KidSet(o), MaxNodes)

\* no node is its own descendant
ChildrenAcyclic == \A o \in NodeIds : o \notin Descendants(o)

NoLocalHandles == \A o \in NodeIds : ext[o] = 0

AllDestroyed ==
    \A o \in NodeIds :
        heap[o].block # "unalloc" =>
            heap[o].strong = 0 /\ heap[o].slot = "dropped"

\* C24 as stated: whatever add_child calls built the graph, once every
\* local handle is dropped every node has strong_count 0 and is destroyed.
C24_AsStated == NoLocalHandles => AllDestroyed

\* C24 amended: when the add_child calls made no node its own descendant
\* (the children edges have no cycle), then once every local handle is
\* dropped every node has strong_count 0 and its value destroyed; a node
\* that outlives the local handles lies on or below a cycle of children.
C24_AcyclicTreesNeverLeak ==
    /\ (NoLocalHandles /\ ChildrenAcyclic) => AllDestroyed
    /\ NoLocalHandles =>
           \A o \in NodeIds :
               heap[o].strong > 0 =>
                   \E x \in NodeIds : x \in Descendants(x)
                                      /\ o \in Descendants(x)

\* C24 witness: the last local handle has just been dropped and that one
\* drop destroyed two nodes, a parent and the child it owned
W24_DropDestroyedParentAndChild ==
    /\ NoLocalHandles
    /\ gLast.op = "drop" /\ gLast.b = 2
    /\ \A o \in {1, 2} : heap[o].slot = "dropped" /\ heap[o].block = "freed"

\* ------------------------------------------------------------- BadNode
\* p owns c through its children and c owns p through its parent field
Linked(p, c) ==
    /\ heap[p].block = "live" /\ heap[c].block = "live"
    /\ Occurrences(heap[p].kids, c) >= 1
    /\ heap[c].sparent = p

\* C25: a parent and a child linked by add_child_bad keep each other alive:
\* both strong counts stay at least 1 and neither value is destroyed; no
\* drop unlinks them, and once the local handles to both are gone nothing
\* can, so their counts never reach 0.
C25_StrongCycleLeaks ==
    [][\A p, c \in NodeIds :
           Linked(p, c) =>
               /\ heap[p].strong >= 1 /\ heap[c].strong >= 1
               /\ heap[p].slot = "valid" /\ heap[c].slot = "valid"
               /\ gLast'.op # "add_child_bad" =>
                      /\ Linked(p, c)'
                      /\ heap'[p].strong >= 1 /\ heap'[c].strong >= 1
                      /\ heap'[p].slot = "valid" /\ heap'[c].slot = "valid"
                      /\ heap'[p].drops = 0 /\ heap'[c].drops = 0
               /\ (ext[p] = 0 /\ ext[c] = 0) =>
                      /\ Linked(p, c)'
                      /\ ext'[p] = 0 /\ ext'[c] = 0
                      /\ heap'[p].strong >= 1 /\ heap'[c].strong >= 1
                      /\ heap'[p].slot = "valid" /\ heap'[c].slot = "valid"
                      /\ heap'[p].kids = heap[p].kids
                      /\ heap'[c].sparent = heap[c].sparent
      ]_vars

\* C25 witness: the last local handle has been dropped; parent and child,
\* two different nodes, each still have strong_count 1 and a valid value
W25_LeakedPair ==
    \E p, c \in NodeIds :
        /\ p # c
        /\ Linked(p, c)
        /\ NoLocalHandles
        /\ gLast.op = "drop"
        /\ heap[p].strong = 1 /\ heap[c].strong = 1
        /\ heap[p].slot = "valid" /\ heap[c].slot = "valid"

\* what get_parent answers, read off the state: the parent link upgrades
GetParentIsSome(hp, c) == LinkUpgrades(hp, hp[c].parent)

\* C26 as stated: add_child(parent, child) appends child to the children,
\* raises parent's weak_count by 1, leaves its strong_count, and from then
\* on get_parent of child gives parent for as long as parent is alive, and
\* nothing once it is destroyed.
C26_AsStated ==
    [][/\ \A p, c \in NodeIds :
              gLast' = GraphOp("add_child", p, c, "none") =>
                  /\ heap'[p].kids = Append(heap[p].kids, c)
                  /\ heap'[c].parent = p
                  /\ BoxWeakCount(heap'[p]) = BoxWeakCount(heap[p]) + 1
                  /\ BoxStrongCount(heap'[p]) = BoxStrongCount(heap[p])
       /\ \A p, c \in NodeIds :
              (heap[c].slot = "valid" /\ heap'[c].slot = "valid"
                   /\ heap[c].parent = p /\ heap'[p].strong > 0) =>
                  heap'[c].parent = p
       /\ \A c \in NodeIds :
              (gLast'.op = "get_parent" /\ gLast'.a = c) =>
                  /\ gLast'.b = heap[c].parent
                  /\ (gLast'.res = "some") <=> GetParentIsSome(heap, c)
      ]_vars

\* C26 amended: add_child(parent, child) appends child to the children,
\* stores a Weak to parent in child, leaves parent's strong_count, and raises
\* parent's weak_count by 1 unless child's link already named parent (the
\* old Weak is dropped: no change then).  get_parent of child gives parent
\* while parent is alive and child has not been handed to add_child again,
\* and nothing once parent is destroyed.
C26_AddChild ==
    [][/\ \A p, c \in NodeIds :
              gLast' = GraphOp("add_child", p, c, "none") =>
                  /\ heap'[p].kids = Append(heap[p].kids, c)
                  /\ heap'[c].parent = p
                  /\ GetParentIsSome(heap', c)
                  /\ BoxWeakCount(heap'[p])
                         = BoxWeakCount(heap[p])
                               + (IF heap[c].parent = p THEN 0 ELSE 1)
                  /\ BoxStrongCount(heap'[p]) = BoxStrongCount(heap[p])
                  /\ BoxStrongCount(heap'[c]) = BoxStrongCount(heap[c])
       /\ \A p, c \in NodeIds :
              (heap[c].slot = "valid" /\ heap'[c].slot = "valid"
                   /\ heap[c].parent = p
                   /\ ~(gLast'.op = "add_child" /\ gLast'.b = c)) =>
                  heap'[c].parent = p
       /\ \A c \in NodeIds :
              (gLast'.op = "get_parent" /\ gLast'.a = c) =>
                  /\ gLast'.b = heap[c].parent
                  /\ (gLast'.res = "some") <=> GetParentIsSome(heap, c)
                  /\ (gLast'.b # 0 /\ heap[gLast'.b].slot = "dropped")
                         => gLast'.res = "none"
      ]_vars

\* C26 witness: add_child(&p, c.clone()) has just returned: p's children
\* are <<c>>, p's weak_count is 1, c names p and has strong_count 2
W26_ChildAdded ==
    \E p, c \in NodeIds :
        /\ p # c
        /\ gLast = GraphOp("add_child", p, c, "none")
        /\ heap[p].kids = <<c>>
        /\ heap[c].parent = p
        /\ BoxWeakCount(heap[p]) = 1 /\ BoxStrongCount(heap[p]) = 1
        /\ BoxStrongCount(heap[c]) = 2 /\ ext[c] = 1

\* ------------------------------------------------- Subject and Observer
\* the entries of the subject's list whose observer is alive
LiveRegs(hp) ==
    Cardinality({i \in DOMAIN hp[SubjectId].wlist :
                     hp[hp[SubjectId].wlist[i]].strong > 0})

\* C27: the subject holds only Weak handles to its observers: every strong
\* handle to an observer is a local one, add_observer leaves the observer's
\* strong_count and appends one Weak, and set_value removes exactly the
\* entries whose observer is gone, so that afterwards every entry is alive
\* and observer_count is the number of registered observers still alive.
C27_SubjectHoldsObserversWeakly ==
    [][/\ \A o \in ObserverIds : heap[o].strong = ext[o]
       /\ \A o \in ObserverIds :
              gLast' = GraphOp("add_observer", SubjectId, o, "none") =>
                  /\ heap'[o].strong = heap[o].strong
                  /\ heap'[o].weak = heap[o].weak + 1
                  /\ heap'[SubjectId].strong = heap[SubjectId].strong
                  /\ heap'[SubjectId].wlist
                         = Append(heap[SubjectId].wlist, o)
                  /\ heap'[o].parent = SubjectId
       /\ gLast'.op = "set_value" =>
              /\ \A o \in ObsNodeIds : heap'[o].strong = heap[o].strong
              /\ heap'[SubjectId].wlist
                     = Retained(heap, heap[SubjectId].wlist)
              /\ gLast'.b = Len(heap[SubjectId].wlist) - LiveRegs(heap)
              /\ Len(heap'[SubjectId].wlist) = LiveRegs(heap)
              /\ Len(heap'[SubjectId].wlist) = LiveRegs(heap')
              /\ \A i \in DOMAIN heap'[SubjectId].wlist :
                     heap'[heap'[SubjectId].wlist[i]].slot = "valid"
       /\ gLast'.op = "observer_count" =>
              /\ gLast'.b = Len(heap[SubjectId].wlist)
              /\ UNCHANGED <<heap, ext>>
      ]_vars

\* C27 witness: two observers were registered, one has been destroyed, and
\* the set_value that followed removed its entry and kept the other
W27_DeadObserverRemoved ==
    \E o, d \in ObserverIds :
        /\ gLast = GraphOp("set_value", SubjectId, 1, "none")
        /\ heap[SubjectId].wlist = <<o>>
        /\ heap[o].slot = "valid" /\ heap[o].strong = 1
        /\ heap[d].slot = "dropped"

\* ---------------------------------------------------------------- Cache
\* C28 as stated: size never exceeds max_size; an insert past the limit
\* removes the oldest entry, and get of the removed entry's key then
\* returns nothing.
C28_AsStated ==
    [][/\ heap[CacheId].slot = "valid" =>
              Len(heap[CacheId].kids) <= heap[CacheId].data
       /\ (gLast'.op = "insert" /\ gLast'.b # 0) =>
              /\ gLast'.b = Head(Append(heap[CacheId].kids, gLast'.a))
              /\ Find(heap', heap'[gLast'.b].data) = 0
      ]_vars

\* C28 amended: size never exceeds max_size; an insert below the limit only
\* appends; an insert past the limit removes the oldest entry (FIFO) and
\* keeps the others in order; get never returns a removed entry: it returns
\* the first remaining entry with the key, so get of the removed entry's
\* key returns nothing unless a remaining entry has the same key.
C28_BoundedFifo ==
    [][/\ heap[CacheId].slot = "valid" =>
              Len(heap[CacheId].kids) <= heap[CacheId].data
       /\ gLast'.op = "insert" =>
              LET es == heap[CacheId].kids
                  m == heap[CacheId].data
                  e == gLast'.a
                  x == gLast'.b
              IN  /\ heap[e].block = "unalloc"
                  /\ Len(heap'[CacheId].kids) <= m
                  /\ Len(es) < m =>
                         x = 0 /\ heap'[CacheId].kids = Append(es, e)
                  /\ Len(es) = m =>
                         /\ x = Head(Append(es, e))
                         /\ heap'[CacheId].kids = Tail(Append(es, e))
                         /\ Occurrences(heap'[CacheId].kids, x) = 0
                         /\ Find(heap', heap'[x].data) # x
                         /\ (Find(heap', heap'[x].data) = 0)
                                <=> (\A i \in DOMAIN heap'[CacheId].kids :
                                         heap'[heap'[CacheId].kids[i]].data
                                             # heap'[x].data)
       /\ gLast'.op = "get" =>
              /\ gLast'.b = Find(heap, gLast'.a)
              /\ (gLast'.res = "none") <=> (gLast'.b = 0)
              /\ gLast'.b # 0 =>
                     /\ Occurrences(heap[CacheId].kids, gLast'.b) = 1
                     /\ heap[gLast'.b].data = gLast'.a
       /\ gLast'.op = "size" =>
              /\ gLast'.b = Len(heap[CacheId].kids)
              /\ gLast'.b <= heap[CacheId].data
      ]_vars

\* C28 witness: the third insert into a cache of max_size 2 has removed the
\* first entry; two entries remain and the removed key is found no more
W28_OldestEvicted ==
    /\ gLast.op = "insert" /\ gLast.b # 0 /\ gLast.b # gLast.a
    /\ heap[CacheId].data = 2
    /\ Len(heap[CacheId].kids) = 2
    /\ heap[CacheId].kids[2] = gLast.a
    /\ Occurrences(heap[CacheId].kids, gLast.b) = 0
    /\ Find(heap, heap[gLast.b].data) = 0

\* ------------------------------------------------------ Arc<Mutex<i32>>
\* C29: once main has joined every thread the counter is NumThreads,
\* whatever the interleaving: no increment is lost (at any time the counter
\* is the number of threads that have stored), and main reads NumThreads.
C29_CounterEqualsThreads ==
    /\ arc.val = Cardinality({t \in ThreadIds :
                                  arc.tpc[t] \in {"written", "unlocked", "done"}})
    /\ arc.main \in {"check", "done"} =>
           /\ \A t \in ThreadIds : arc.tpc[t] = "done"
           /\ arc.val = NumThreads
    /\ arc.main = "done" => arc.seen = NumThreads

\* C29 witness: every thread is joined, main has read the counter and it is
\* the number of threads; only main's handle is left
W29_AllJoinedCounterRead ==
    /\ arc.main = "done"
    /\ arc.joined = NumThreads
    /\ arc.seen = NumThreads
    /\ arc.strong = 1

\* --------------------------------------------------------------- LazyPtr
\* a step that is a call of get or get_mut on the constructed LazyPtr
LazyCall == lazy.pc = "run" /\ lazy'.last.op \in {"get", "get_mut"}

\* C30 as stated: the initialiser runs at most once, the first call
\* initialises the data, and every later get or get_mut returns the stored
\* data without running the initialiser again
C30_AsStated ==
    [][LazyCall =>
          /\ lazy'.calls <= 1
          /\ ~lazy.some => (lazy'.last.ran /\ lazy'.some /\ lazy'.v = lazy.fn)
          /\ lazy.some => /\ ~lazy'.last.ran
                          /\ lazy'.calls = lazy.calls
                          /\ lazy'.last.res = "ok"
                          /\ lazy'.last.ret = lazy.v]_vars

\* C30: the initialiser runs at most once: the first get or get_mut runs it
\* and stores its result; every later get or get_mut leaves the initialiser
\* alone and the data as stored, and returns the stored data unless it
\* panics on a borrow conflict: get while the RefMut of a get_mut is alive,
\* get_mut while any guard is alive
C30_InitialisedAtMostOnce ==
    [][LazyCall =>
          /\ lazy'.calls <= 1
          /\ lazy'.some <=> lazy'.calls = 1
          /\ ~lazy.some => /\ lazy'.last.ran
                           /\ lazy'.last.res = "ok"
                           /\ lazy'.last.ret = lazy.fn
                           /\ lazy'.some /\ lazy'.v = lazy.fn
                           /\ lazy'.calls = 1
          /\ lazy.some => /\ ~lazy'.last.ran
                          /\ lazy'.calls = lazy.calls
                          /\ lazy'.v = lazy.v
                          /\ lazy'.last.res = "ok" => lazy'.last.ret = lazy.v
                          /\ lazy'.last.res = "panic" <=>
                                 \/ lazy.flag = -1
                                 \/ lazy'.last.op = "get_mut" /\ lazy.flag # 0]_vars

\* C30 witness: a later get, with the guard of an earlier get still alive,
\* returned the stored data and the initialiser has run once
W30_SecondGetReturnsStored ==
    /\ lazy.last = LazyOp("get", "ok", lazy.v, FALSE)
    /\ lazy.calls = 1
    /\ lazy.flag = 2

\* ------------------------------------------------------------- SecurePtr
\* the data and its borrow state are what they were
SecureDataUntouched == sec'.v = sec.v /\ sec'.flag = sec.flag /\ sec'.pc = sec.pc

\* C31 as stated: write gives an error at ReadOnly and a guard at ReadWrite
\* or Admin; admin_access gives a guard at Admin and an error otherwise; read
\* is allowed at every level; a failed access check leaves the data and its
\* borrow state unchanged
C31_AsStated ==
    [][\A h \in SecureIds :
           (sec.pc = "run" /\ sec'.last.h = h) =>
               /\ sec'.last.op = "write" =>
                      IF sec.level[h] = "ReadOnly"
                      THEN sec'.last.res = "err" /\ SecureDataUntouched
                      ELSE sec'.last.res = "ok" /\ sec'.flag = -1
               /\ sec'.last.op = "admin_access" =>
                      IF sec.level[h] = "Admin"
                      THEN sec'.last.res = "ok" /\ sec'.flag = -1
                      ELSE sec'.last.res = "err" /\ SecureDataUntouched
               /\ sec'.last.op = "read" =>
                      sec'.last.res = "ok" /\ sec'.last.ret = sec.v
      ]_vars

\* C31: the access check of write fails exactly at ReadOnly, that of
\* admin_access exactly below Admin, read has none; a failed check returns
\* an error and leaves the data and its borrow state unchanged; a call that
\* passes the check borrows the data and returns the guard, unless a guard
\* still alive conflicts with it (any guard for write and admin_access, a
\* RefMut for read), in which case it panics
C31_AccessLevels ==
    [][\A h \in SecureIds :
           (sec.pc = "run" /\ sec'.last.h = h) =>
               /\ sec'.last.op = "write" =>
                      IF sec.level[h] = "ReadOnly"
                      THEN sec'.last.res = "err" /\ SecureDataUntouched
                      ELSE /\ sec'.last.res = (IF sec.flag = 0 THEN "ok" ELSE "panic")
                           /\ sec'.last.res = "ok" => sec'.flag = -1
               /\ sec'.last.op = "admin_access" =>
                      IF sec.level[h] = "Admin"
                      THEN /\ sec'.last.res = (IF sec.flag = 0 THEN "ok" ELSE "panic")
                           /\ sec'.last.res = "ok" => sec'.flag = -1
                      ELSE sec'.last.res = "err" /\ SecureDataUntouched
               /\ sec'.last.op = "read" =>
                      /\ sec'.last.res = (IF sec.flag = -1 THEN "panic" ELSE "ok")
                      /\ sec'.last.res = "ok" =>
                             sec'.last.ret = sec.v /\ sec'.flag = sec.flag + 1
               /\ sec'.last.op \in {"read", "write", "admin_access"} =>
                      sec'.v = sec.v /\ sec'.level = sec.level
      ]_vars

\* C31 witness: admin_access through a ReadWrite handle has just failed
\* while a Ref on the data is alive, and the borrow state is what it was
W31_AdminAccessDenied ==
    \E h \in SecureIds :
        /\ sec.last = SecureOp("admin_access", h, "err", 0)
        /\ sec.level[h] = "ReadWrite"
        /\ sec.flag = 1
        /\ sec.pc = "run"

\* the handles a party holding only h can come to hold: h itself and what
\* clone_with_access makes from them
RECURSIVE MadeFrom(_, _)
MadeFrom(s, h) ==
    IF h = 0 THEN FALSE
    ELSE IF s.level[h] = "ReadOnly" THEN TRUE
    ELSE MadeFrom(s, s.from[h])

\* C39: a party that starts from a ReadOnly handle cannot modify the data:
\* no write or admin_access through that handle, or through a handle made
\* from it by clone_with_access, hands out a guard
C39_ReadOnlyCannotWrite ==
    [][\A h \in SecureIds :
           (sec'.last.h = h /\ sec'.last.op \in {"write", "admin_access"}
                /\ MadeFrom(sec, h)) =>
               sec'.last.res # "ok"
      ]_vars

\* ------------------------------------------------------------ CountedPtr
\* what access_count answers through the handle h
AccessCountOf(c, h) == c.count[c.counter[h]]

\* C32: the access count is one counter shared by all clones: through every
\* live handle it reads the number of dereferences made so far through any
\* handle; a dereference raises it by exactly 1 for every handle, and
\* access_count, strong_count and clone leave it as it is
C32_AccessCountIsTotalDerefs ==
    [][/\ \A h \in CountedIds :
              cnt'.counter[h] # 0 => AccessCountOf(cnt', h) = cnt'.derefs
       /\ \A h \in CountedIds :
              (cnt.counter[h] # 0 /\ cnt'.counter[h] # 0) =>
                  AccessCountOf(cnt', h) = AccessCountOf(cnt, h)
                      + (IF cnt'.last.op = "deref" THEN 1 ELSE 0)
       /\ cnt'.last.op = "access_count" => cnt'.last.ret = cnt.derefs
       /\ cnt'.last.op = "strong_count" =>
              cnt'.last.ret = Cardinality({h \in CountedIds : cnt.counter[h] # 0})
       /\ cnt'.last.op = "clone" =>
              AccessCountOf(cnt', cnt'.last.ret) = AccessCountOf(cnt, cnt'.last.h)
      ]_vars

\* C32 witness: with at least two handles alive and two dereferences made,
\* access_count has just returned 2
W32_CountSeenThroughAnotherClone ==
    /\ cnt.last.op = "access_count"
    /\ cnt.last.ret = 2
    /\ cnt.derefs = 2
    /\ Cardinality({h \in CountedIds : cnt.counter[h] # 0}) >= 2

\* ------------------------------------------------------- Rc and Weak, again
\* the live handles of each kind that refer to allocation a
StrongHandlesOf(a) == {h \in DOMAIN rc : rc[h] = a}
WeakHandlesOf(a) == {w \in DOMAIN wk : wk[w] = a}

\* C33: in every reachable state the strong count of an allocation is the
\* number of live Rc handles to it and its weak count the number of live
\* Weak handles that point at it (empty ones count nowhere); no counter is
\* ever negative
C33_CountsAreHandleCounts ==
    \A a \in AllocIds :
        /\ AllocStrongCount(a) = Cardinality(StrongHandlesOf(a))
        /\ AllocWeakCount(a) = Cardinality(WeakHandlesOf(a))
        /\ box[a].strong >= 0 /\ box[a].weak >= 0
        /\ AllocWeakCount(a) >= 0
        /\ \A h \in StrongHandlesOf(a) :
               /\ strong_count(h) = Cardinality(StrongHandlesOf(a))
               /\ weak_count(h) = Cardinality(WeakHandlesOf(a))

\* C33 witness: an allocation with two Rc handles and two Weak handles; its
\* counters read 2 and 2
W33_TwoStrongTwoWeak ==
    \E a \in AllocIds :
        /\ Cardinality(StrongHandlesOf(a)) = 2
        /\ Cardinality(WeakHandlesOf(a)) = 2
        /\ box[a].strong = 2
        /\ AllocWeakCount(a) = 2

\* C34: strong_count == 0 is absorbing: once the strong count of an
\* allocation has come down to 0 it stays 0, the value slot never holds a
\* valid value again, no Rc handle to it appears, and every upgrade of a
\* Weak that points at it gives nothing
C34_ZeroIsAbsorbing ==
    [][\A a \in AllocIds :
           (box[a].block # "unalloc" /\ box[a].strong = 0) =>
               /\ box'[a].strong = 0
               /\ box'[a].slot # "valid"
               /\ box'[a].slot = box[a].slot
               /\ box'[a].block # "unalloc"
               /\ \A h \in DOMAIN rc' : rc'[h] # a
               /\ (last'.op = "upgrade" /\ last'.a = a) => last'.res = "none"
      ]_vars

\* C34 witness: a Weak of a destroyed value has just been upgraded in vain
\* while a second Weak to the same allocation is alive
W34_UpgradeOfDeadBesideWeak ==
    \E a \in AllocIds :
        /\ last.op = "upgrade" /\ last.a = a /\ last.res = "none"
        /\ box[a].strong = 0 /\ box[a].slot = "dropped"
        /\ Cardinality(WeakHandlesOf(a)) = 2

\* C36: when try_unwrap succeeds on the only Rc handle while Weak handles
\* to the allocation exist, the caller gets the value (it is moved out, not
\* destroyed), the strong count becomes 0 and the block survives; from then
\* on, while any of those Weak handles lives, the block stays and every
\* upgrade of them gives nothing
C36_TryUnwrapUnderWeak ==
    [][/\ \A a \in AllocIds :
              (last'.op = "try_unwrap" /\ last'.res = "ok" /\ last'.a = a
                   /\ WeakHandlesOf(a) # {}) =>
                  /\ box[a].strong = 1
                  /\ last'.ret = box[a].data
                  /\ box'[a].slot = "moved"
                  /\ box'[a].drops = box[a].drops
                  /\ box'[a].strong = 0
                  /\ box'[a].block = "live"
                  /\ wk' = wk
       /\ \A w \in DOMAIN wk :
              box[wk[w]].slot = "moved" =>
                  /\ box[wk[w]].block = "live"
                  /\ box[wk[w]].strong = 0
                  /\ box'[wk[w]].slot = "moved"
                  /\ box'[wk[w]].drops = 0
                  /\ (last'.op = "upgrade" /\ last'.h = w) =>
                         last'.res = "none" /\ rc' = rc
      ]_vars

\* C36 witness: after a successful try_unwrap a Weak to the emptied
\* allocation has just been upgraded and gave nothing
W36_UpgradeAfterTryUnwrap ==
    \E w \in DOMAIN wk :
        /\ last = Op("upgrade", w, wk[w], "none", 0)
        /\ box[wk[w]].slot = "moved"
        /\ box[wk[w]].block = "live"

\* --------------------------------------------------------- RefCell, again
\* the borrow state of cell c agrees with the guards alive in gs: n >= 1
\* readers is n Ref guards and no RefMut, "writing" is one RefMut and no
\* Ref, unused is no guard at all
StateMatchesGuards(flag, gs, c) ==
    LET refs == Cardinality({i \in DOMAIN gs : gs[i] = Guard(c, "ref")})
        muts == Cardinality({i \in DOMAIN gs : gs[i] = Guard(c, "mut")})
    IN  /\ flag[c] \in {-1} \cup (0..MaxGuards)
        /\ flag[c] >= 1 <=> (refs >= 1 /\ muts = 0)
        /\ flag[c] >= 1 => refs = flag[c]
        /\ flag[c] = -1 <=> (muts = 1 /\ refs = 0)
        /\ flag[c] = 0 <=> (refs = 0 /\ muts = 0)

\* C35: in every reachable state each cell's borrow state is Shared(n)
\* exactly when n >= 1 Ref guards and no RefMut guard are alive, Exclusive
\* exactly when one RefMut and no Ref is alive, Unborrowed exactly when no
\* guard is alive; and the state changes only in a step that acquires a
\* guard of that cell or releases one
C35_StateIsGuards ==
    [][\A c \in CellIds :
           /\ StateMatchesGuards(borrowFlag, guards, c)
           /\ StateMatchesGuards(borrowFlag', guards', c)
           /\ borrowFlag'[c] # borrowFlag[c] =>
                  /\ cellLast'.cell = c
                  /\ \/ /\ cellLast'.op \in {"borrow", "try_borrow"}
                        /\ cellLast'.res = "ok"
                        /\ guards' = Append(guards, Guard(c, "ref"))
                        /\ borrowFlag'[c] = borrowFlag[c] + 1
                     \/ /\ cellLast'.op \in {"borrow_mut", "try_borrow_mut"}
                        /\ cellLast'.res = "ok"
                        /\ guards' = Append(guards, Guard(c, "mut"))
                        /\ borrowFlag[c] = 0 /\ borrowFlag'[c] = -1
                     \/ /\ cellLast'.op \in {"ref_drop", "refmut_drop", "unwind_drop"}
                        /\ Len(guards') = Len(guards) - 1
                        /\ borrowFlag'[c] = IF borrowFlag[c] = -1 THEN 0
                                            ELSE borrowFlag[c] - 1
           /\ guards' # guards => borrowFlag' # borrowFlag
      ]_vars

\* C35 witness: one cell is Shared(2) under two Ref guards while the other
\* is Exclusive under a RefMut
W35_SharedTwoBesideExclusive ==
    \E c, d \in CellIds :
        /\ borrowFlag[c] = 2 /\ Cardinality(RefGuards(c)) = 2
        /\ borrowFlag[d] = -1 /\ Cardinality(MutGuards(d)) = 1

\* ------------------------------------------------------- TreeNode, again
\* c is in the children of p
InKids(hp, p, c) == \E i \in DOMAIN hp[p].kids : hp[p].kids[i] = c

\* the nodes that have c among their children
ParentsOf(hp, c) == {p \in DOMAIN hp : InKids(hp, p, c)}

\* the children lists and the parent links of hp, this way round: a node in
\* the children of a live node has a parent link; a parent link that
\* upgrades names a node that has the child among its children; and while
\* no node has been destroyed, a node in the children of one node only has
\* that node as its parent
LinksConsistent(hp) ==
    LET whole == \A q \in DOMAIN hp : hp[q].slot # "dropped"
    IN  \A c \in DOMAIN hp :
            LET ps == ParentsOf(hp, c)
            IN  /\ ps # {} => hp[c].parent # 0
                /\ GetParentIsSome(hp, c) => hp[c].parent \in ps
                /\ (whole /\ ps # {} /\ ps \subseteq {hp[c].parent}) =>
                       GetParentIsSome(hp, c)
                /\ (whole /\ Cardinality(ps) = 1) => ps = {hp[c].parent}

\* C37 as stated: for every live node P and every C in P.children,
\* C.get_parent() returns P, also after C was added a second time or to a
\* second parent
C37_AsStated ==
    \A p, c \in NodeIds :
        (heap[p].slot = "valid" /\ c \in KidSet(p)) =>
            GetParentIsSome(heap, c) /\ heap[c].parent = p

\* C37: for every live node P and every C in P.children, C.get_parent()
\* returns the node C was added to last: add_child(P, C) makes it P (again
\* when C is added to P a second time) and only a later add_child of C to
\* another node changes it, or the destruction of that node, which makes it
\* nothing. It is P while C is in no other node's children and no node was
\* destroyed; and whatever get_parent returns has C among its children.
C37_ParentIsLastAddedTo ==
    [][/\ LinksConsistent(heap')
       /\ gLast'.op = "add_child" =>
              /\ InKids(heap', gLast'.a, gLast'.b)
              /\ heap'[gLast'.b].parent = gLast'.a
              /\ GetParentIsSome(heap', gLast'.b)
              /\ \A q \in NodeIds \ {gLast'.a} : heap'[q].kids = heap[q].kids
       /\ \A c \in NodeIds :
              (heap'[c].parent # heap[c].parent /\ heap'[c].slot = "valid") =>
                  gLast'.op = "add_child" /\ gLast'.b = c
       /\ (gLast'.op = "get_parent" /\ gLast'.res = "some") =>
              /\ gLast'.b = heap[gLast'.a].parent
              /\ InKids(heap, gLast'.b, gLast'.a)
      ]_vars

\* C37 witness: C was added to P and then to Q: it is in the children of
\* both, which are alive, and its parent link names Q
W37_ChildOfTwoParents ==
    \E p, q, c \in NodeIds :
        /\ p # q
        /\ heap[p].slot = "valid" /\ heap[q].slot = "valid"
        /\ c \in KidSet(p) /\ c \in KidSet(q)
        /\ gLast = GraphOp("add_child", q, c, "none")
        /\ heap[c].parent = q

\* ------------------------------------------- Subject and Observer, again
\* C38: set_value never meets a borrow conflict: whatever add_observer,
\* set_value, get_value, observer_count calls and drops of observers came
\* before, the borrows that set_value and notify_observers make (with every
\* live registered observer notified) find their cell free, and no call of
\* set_value or get_value has panicked
C38_SetValueNeverConflicts ==
    /\ gLast.res # "panic"
    /\ heap[SubjectId].slot = "valid" =>
           ~Conflict(NoBorrows, SetValueBorrows(LiveRegs(heap)))

\* C38 witness: set_value has just returned after notifying two live
\* observers, both still registered
W38_TwoObserversNotified ==
    /\ gLast = GraphOp("set_value", SubjectId, 0, "none")
    /\ Len(heap[SubjectId].wlist) = 2
    /\ LiveRegs(heap) = 2

\* each task is in exactly one place: still queued, popped and held by one
\* worker, or processed once
TaskPlaces(t) ==
    Cardinality({i \in DOMAIN wq.queue : wq.queue[i] = t})
        + Cardinality({w \in WorkerIds : wq.task[w] = t})
        + wq.done[t]

AllExited == \A w \in WorkerIds : wq.wpc[w] = "exited"

\* C40: with any number of workers draining the one shared queue, under
\* every interleaving no task is lost or duplicated (each task is at all
\* times in exactly one place, and once the workers have exited each has
\* been processed exactly once, by one worker), a worker exits only on
\* finding the queue empty, and every worker eventually exits
C40_EachTaskOnceAndAllExit ==
    /\ [](/\ \A t \in 1..NumTasks : TaskPlaces(t) = 1
          /\ \A w \in WorkerIds : wq.wpc[w] = "exited" => wq.queue = <<>>
          /\ AllExited =>
                 \A t \in 1..NumTasks : wq.done[t] = 1 /\ wq.by[t] \in WorkerIds)
    /\ <>[]AllExited

\* witness: all workers have exited, the five tasks are processed and each
\* worker processed at least one of them
W40_DrainedByAllWorkers ==
    /\ AllExited
    /\ \A t \in 1..NumTasks : wq.done[t] = 1
    /\ \A w \in WorkerIds : \E t \in 1..NumTasks : wq.by[t] = w

====
